---- MODULE Spec2Model ----
(***************************************************************************)
(* The order pipeline of the Hyperliquid trading bot:                      *)
(*   execute_real_order, set_leverage, _get_asset_id,                      *)
(*   _get_tick_size_and_precision, _get_max_leverage                       *)
(*     (src/hyperliquid_bot_executable_orders.py)                          *)
(*   send_minimal_order, create_minimal_order, get_asset_id                *)
(*     (src/hyperliquid_minimal_order.py)                                  *)
(*                                                                         *)
(* The bot is single-threaded: one call runs at a time and `pc` is its     *)
(* position.  Every network request is one step; the exchange is the       *)
(* environment: it answers each request with any outcome (exception,       *)
(* non-200, 200 with any body of the modelled shapes) and may reorder its  *)
(* asset universe between two requests of the bot.                         *)
(*                                                                         *)
(* Numbers.  Python floats are modelled as exact fixed-point decimals:     *)
(* a price is an integer count of 10^-PriceDigits dollars, a size an       *)
(* integer count of 10^-SizeDigits coins.  Input prices are multiples of   *)
(* 40 units so that the 5% and 2.5% offsets are exact.  Strings are        *)
(* sequences of one-character strings.                                     *)
(***************************************************************************)
EXTENDS Integers, Sequences, FiniteSets, TLC

VARIABLES
    universe,         \* exchange: tracked coin -> its index in meta.universe
    pc,               \* position of the running call
    op,               \* which entry point is running / has returned
    coin, side, size, price, leverage,   \* arguments of the call
    asset_id,         \* local asset_id (None when unresolved)
    reference_price,  \* local reference_price (Unbound until line 973 runs)
    limit_price,      \* local limit_price
    limit_is_int,     \* whether limit_price is a Python int (tick_size == 1)
    tick_size,        \* local tick_size, in price units
    precision,        \* local precision
    tick_source,      \* which path of _get_tick_size_and_precision returned
    tick_coin,        \* the coin whose mid price that path read
    payload,          \* the body POSTed to /exchange by this call
    response,         \* the answer to that POST
    result,           \* the call's return value
    reqs,             \* outcome of each metadata request of this call, and
                      \* idx: the coin's index when asset_id was resolved
    idx_now,          \* index of coin in the universe when the POST is made
    reordered,        \* the universe changed after asset_id was resolved
    posts,            \* POSTs to /exchange made by this call
    signed,           \* sign_l1_action_exact invocations of this call
    bot,              \* the fields of the bot object (self)
    rpc,              \* position of start() / run_trading_cycle
    cycle,            \* trading cycles started so far
    orders,           \* executable_orders of the running cycle, in key order
    todo,             \* coins the for loop of the cycle has still to process
    attempts,         \* what the running cycle did with each coin so far
    clock,            \* the millisecond clock, as last read
    nonces,           \* the signed payloads the running cycle POSTed to
                      \* /exchange
    hpc,              \* position of the caller of the signing functions
    hin,              \* the arguments they are applied to
    hout,             \* what they computed and returned
    xpc,              \* position of the cycle in the processing of one coin
    xin,              \* what the cycle has read for that coin: the portfolio,
                      \* the market data, the order of the LLM
    xout              \* what it did: the risk check, the submissions to
                      \* /exchange, the return value

\* The state of one gateway call and of the exchange it talks to.
callvars == <<universe, pc, op, coin, side, size, price, leverage, asset_id,
              reference_price, limit_price, limit_is_int, tick_size, precision,
              tick_source, tick_coin, payload, response, result, reqs, idx_now,
              reordered, posts, signed>>

\* The state a gateway call does not touch.
runvars == << rpc, cycle, orders, todo, attempts, clock, nonces >>
signvars == << hpc, hin, hout >>
execvars == << xpc, xin, xout >>
outside == << bot, runvars, signvars, execvars >>

vars == << callvars, outside >>

---------------------------------------------------------------------------
(* Bounds and resolution of the model *)

PriceDigits == 5      \* decimals of a price: the finest tick of the code
SizeDigits  == 4      \* decimals of a size
MaxStatuses == 2      \* entries of response.data.statuses
MaxClock    == 1      \* the last millisecond of the clock
MaxCycles   == 2      \* trading cycles of one run of start()

Pow10(n) == IF n = 0 THEN 1 ELSE IF n = 1 THEN 10 ELSE IF n = 2 THEN 100
            ELSE IF n = 3 THEN 1000 ELSE IF n = 4 THEN 10000
            ELSE IF n = 5 THEN 100000 ELSE IF n = 6 THEN 1000000
            ELSE 10000000

Dollar   == Pow10(PriceDigits)      \* price units in 1.0
SizeUnit == Pow10(SizeDigits)       \* size units in 1.0

---------------------------------------------------------------------------
(* Values *)

None    == -1     \* Python None for an Optional[int]
Unbound == -1     \* a local that was never assigned

Coins == {"ETH", "ADA"}
Idx   == {1, 2, 65}

\* Every layout of the tracked coins in the exchange's universe: a coin may
\* be missing, and two coins never share an index.
Universes ==
    UNION { { u \in [S -> Idx] : \A a, b \in S : a # b => u[a] # u[b] }
            : S \in SUBSET Coins }

\* Arguments the callers pass.
RawPrices == { 50 * Dollar, 96 * Dollar, 106 * Dollar }
Sizes     == { (167 * SizeUnit) \div 10, (123 * SizeUnit) \div 10000,
               0 - ((167 * SizeUnit) \div 10) }
Leverages == { 5, 20 }

\* What the exchange may report.
NoMark  == -1     \* the asset has no markPx key
BadMark == -2     \* markPx is not a number: float() raises
MarkPxs == { 100 * Dollar, (1003 * Dollar) \div 10, NoMark, BadMark }

NoMid    == -1    \* the coin is not a key of allMids
EmptyMid == -2    \* the mid is the empty string
BadMid   == -3    \* the mid is not a number: float() raises
MidPxs   == { 100 * Dollar, (1003 * Dollar) \div 10, (Dollar \div 2) + 1,
              NoMid, EmptyMid, BadMid }
MidCoins == { "ETH", "ADA" }

\* The allMids responses: with the request failed there is no body.
MarketDatas(outcome) ==
    IF outcome = "ok" THEN [MidCoins -> MidPxs] ELSE { [c \in MidCoins |-> NoMid] }

NoMaxLev == -1    \* the asset has no maxLeverage key
MaxLevs  == { 3, 50, NoMaxLev }

Outcomes == { "exc", "non200", "ok" }

StatusSeqs == UNION { [1..n -> {"resting", "error"}] : n \in 0..MaxStatuses }
\* The answers to a POST to /exchange.  http 0: requests.post raised;
\* "nojson": the body of a 200 is not JSON.  Only a JSON body is read further.
Responses  ==
    [ http : {0, 500}, status : {"nojson"}, statuses : { << >> } ]
    \cup [ http : {200}, status : {"nojson"}, statuses : { << >> } ]
    \cup [ http : {200, 500}, status : {"ok", "err"}, statuses : StatusSeqs ]
NoResponse == [ http |-> -1, status |-> "", statuses |-> << >> ]
NoPayload  == [ type |-> "none" ]
NoReqs     == [ asset |-> "none", idx |-> -1, ref |-> "none", mids |-> "none",
                maxlev |-> "none", max |-> -1 ]

\* int(time.time() * 1000): the readings of the millisecond clock.
Clock == 0..MaxClock

---------------------------------------------------------------------------
(* Python built-ins, as they act on the fixed-point values *)

Abs(n) == IF n < 0 THEN 0 - n ELSE n
Min(a, b) == IF a < b THEN a ELSE b
Max(a, b) == IF a > b THEN a ELSE b

\* round(n / d) for n >= 0, d > 0: Python 3 rounds a tie to the even integer.
RoundHalfEven(n, d) ==
    LET q == n \div d
        r == n % d
    IN  IF 2 * r < d THEN q
        ELSE IF 2 * r > d THEN q + 1
        ELSE IF q % 2 = 0 THEN q ELSE q + 1

\* Variant of IntOf: rounds to the nearest whole number instead.
IntOf_Rounds(n, unit) ==
    IF n < 0 THEN 0 - RoundHalfEven(Abs(n), unit) ELSE RoundHalfEven(n, unit)

\* int(x): truncation toward zero; the result is a whole number.
IntOf(n, unit) == IF n < 0 THEN 0 - (Abs(n) \div unit) ELSE n \div unit

DigitChar(d) == << "0", "1", "2", "3", "4", "5", "6", "7", "8", "9" >>[d + 1]

RECURSIVE NatStr(_)
NatStr(n) == IF n < 10 THEN << DigitChar(n) >>
             ELSE NatStr(n \div 10) \o << DigitChar(n % 10) >>

\* str(i) of a Python int
StrInt(i) == IF i < 0 THEN << "-" >> \o NatStr(0 - i) ELSE NatStr(i)

RECURSIVE FracDigits(_, _)
FracDigits(f, k) == IF k = 0 THEN << >>
                    ELSE FracDigits(f \div 10, k - 1) \o << DigitChar(f % 10) >>

RECURSIVE StripZeros(_)
StripZeros(s) == IF Len(s) > 1 /\ s[Len(s)] = "0"
                 THEN StripZeros(SubSeq(s, 1, Len(s) - 1))
                 ELSE s

\* str(x) of a Python float holding n / 10^digits, for 1e-4 <= |x| < 1e16 or
\* x = 0: shortest decimal, always with a fractional part ("16.0", "0.0123").
StrFloat(n, digits) ==
    LET u == Pow10(digits)
    IN  (IF n < 0 THEN << "-" >> ELSE << >>)
        \o NatStr(Abs(n) \div u) \o << "." >>
        \o StripZeros(FracDigits(Abs(n) % u, digits))

---------------------------------------------------------------------------
(* Order normalisation: execute_real_order, lines 953-1038 *)

\* Variant of AssetIdOf: an unlisted coin falls back to a default id.
AssetIdOf_DefaultsWhenAbsent(outcome, u, c) ==
    IF outcome = "ok" THEN (IF c \in DOMAIN u THEN u[c] ELSE 1) ELSE None

\* _get_asset_id / get_asset_id: the index of coin in the universe the meta
\* request returned; None when the request failed or the coin is not listed.
AssetIdOf(outcome, u, c) ==
    IF outcome = "ok" /\ c \in DOMAIN u THEN u[c] ELSE None

\* The position of coin in the exchange's universe (None: not listed).
IndexNow(u, c) == IF c \in DOMAIN u THEN u[c] ELSE None

\* How the request ended, as the history records it.
AssetReqOutcome(outcome, u, c) ==
    IF outcome = "ok" /\ c \notin DOMAIN u THEN "absent" ELSE outcome

\* Variant of MaxDeviation: a band of 10%.
MaxDeviation_TenPercent(ref) == ref \div 10

\* max_deviation = reference_price * 0.05
BandPct == 5
MaxDeviation(ref) == (ref * BandPct) \div 100

\* Variant of ClampedLimitPrice: the final clamp of line 992 is missing.
ClampedLimitPrice_NoClamp(is_buy, raw, ref) ==
    IF is_buy THEN Min(raw, ref + (ref \div 20) \div 2)
              ELSE Max(raw, ref - (ref \div 20) \div 2)

\* Lines 984-992: bias toward the reference, then clamp into the band.
ClampedLimitPrice(is_buy, raw, ref) ==
    LET max_deviation == MaxDeviation(ref)
        biased == IF is_buy
                  THEN Min(raw, ref + max_deviation \div 2)
                  ELSE Max(raw, ref - max_deviation \div 2)
    IN  Max(ref - max_deviation, Min(biased, ref + max_deviation))

\* Variant of ReferenceStep: a failed request binds reference_price to the
\* market price, as the warning it logs says.
ReferenceStep_BindsMarketPrice(outcome, u, c, is_buy, raw, mark) ==
    IF outcome # "ok" THEN << raw, raw, outcome >>
    ELSE IF c \in DOMAIN u /\ mark = BadMark THEN << raw, raw, "badpx" >>
    ELSE LET ref == IF c \in DOMAIN u /\ mark # NoMark THEN mark ELSE raw
         IN  << ref, Max(ref - ref \div 20,
                         Min(IF is_buy THEN Min(raw, ref + ref \div 40)
                                       ELSE Max(raw, ref - ref \div 40),
                             ref + ref \div 20)), "ok" >>

\* Lines 964-1000: <<reference_price, limit_price, outcome>> after the meta
\* request for the reference price.  mark is the markPx of the coin's entry.
ReferenceStep(outcome, u, c, is_buy, raw, mark) ==
    IF outcome # "ok"
    THEN << Unbound, raw, outcome >>           \* lines 994-1000
    ELSE IF c \in DOMAIN u /\ mark = BadMark
    THEN << raw, raw, "badpx" >>               \* float() raises at line 976
    ELSE LET ref == IF c \in DOMAIN u /\ mark # NoMark THEN mark ELSE raw
         IN  << ref, ClampedLimitPrice(is_buy, raw, ref), "ok" >>

\* asset_id_to_coin, lines 1220-1226
HardcodedIds == {0, 1, 5, 7, 65}
AssetIdToCoin(id) ==
    IF id = 0 THEN "BTC" ELSE IF id = 1 THEN "ETH" ELSE IF id = 5 THEN "SOL"
    ELSE IF id = 7 THEN "BNB" ELSE IF id = 65 THEN "ADA" ELSE "None"

\* default_tick_sizes, lines 1242-1248 and 1257, in price units
DefaultTickSize(id) ==
    IF id = 0 THEN Dollar \div 10
    ELSE IF id = 1 THEN Dollar \div 100
    ELSE IF id = 5 THEN Dollar \div 1000
    ELSE IF id = 7 THEN Dollar \div 100
    ELSE IF id = 65 THEN Dollar \div 100000
    ELSE Dollar \div 100

\* default_precision, lines 1249-1255 and 1258
DefaultPrecision(id) ==
    IF id = 0 THEN 1 ELSE IF id = 1 THEN 2 ELSE IF id = 5 THEN 3
    ELSE IF id = 7 THEN 2 ELSE IF id = 65 THEN 5 ELSE 2

\* Lines 1234-1235: the decimals of the mid price once trailing zeros are
\* stripped.
DecimalPlaces(px) ==
    CHOOSE d \in 0..PriceDigits :
        /\ px % Pow10(PriceDigits - d) = 0
        /\ \A e \in 0..(d - 1) : px % Pow10(PriceDigits - e) # 0

\* The mid price the live path reads: that of the coin the hardcoded table
\* names for the asset id.
MidOf(id, market_data) ==
    IF id \in HardcodedIds /\ AssetIdToCoin(id) \in DOMAIN market_data
    THEN market_data[AssetIdToCoin(id)]
    ELSE NoMid

\* Lines 1262-1267: the except branch.
ExceptionTick(id) ==
    IF id = 65 THEN << Dollar \div 100000, 5, "except", "None" >>
    ELSE << Dollar \div 100, 2, "except", "None" >>

\* Lines 1241-1260: the default tables.
DefaultTick(id) ==
    << DefaultTickSize(id), DefaultPrecision(id), "default", "None" >>

\* _get_tick_size_and_precision: <<tick_size, precision, path, coin read>>
TickSizeAndPrecision(id, outcome, market_data) ==
    LET mid == MidOf(id, market_data)
    IN  IF outcome = "exc" THEN ExceptionTick(id)
        ELSE IF outcome = "non200" THEN DefaultTick(id)
        ELSE IF mid = NoMid \/ mid = EmptyMid THEN DefaultTick(id)
        ELSE IF mid = BadMid THEN ExceptionTick(id)
        ELSE << Pow10(PriceDigits - DecimalPlaces(mid)), DecimalPlaces(mid),
                "live", AssetIdToCoin(id) >>

\* Line 1004: limit_price = round(limit_price / tick_size) * tick_size
RoundToTick(px, tick) == RoundHalfEven(px, tick) * tick

\* Line 1005: limit_price = round(limit_price, precision)
RoundToPrecision(px, prec) ==
    RoundHalfEven(px, Pow10(PriceDigits - prec)) * Pow10(PriceDigits - prec)

\* Variant of RoundedLimitPrice: the price is submitted unrounded.
RoundedLimitPrice_Unrounded(px, tick, prec) == px

\* Lines 1004-1005
RoundedLimitPrice(px, tick, prec) == RoundToPrecision(RoundToTick(px, tick), prec)

\* str(limit_price): tick_size is the int 1 when decimal_places is 0 and
\* round() of a float by an int tick yields an int; otherwise a float.
StrPrice(px, is_int) ==
    IF is_int THEN StrInt(px \div Dollar) ELSE StrFloat(px, PriceDigits)

\* Variant of OrderWire: the asset id comes from a per-symbol table.
OrderWire_HardcodedId(c, id, is_buy, px, is_int, sz) ==
    [ a |-> IF c = "ADA" THEN 65 ELSE 1, b |-> is_buy,
      p |-> IF is_int THEN StrInt(px \div Dollar) ELSE StrFloat(px, PriceDigits),
      s |-> IF c = "ADA" THEN StrInt(IntOf(sz, SizeUnit)) ELSE StrFloat(sz, SizeDigits),
      r |-> FALSE, t |-> "Gtc" ]

\* Lines 1011-1038: the size string.  ADA is written as a whole number.
StrSize(c, sz) ==
    IF c = "ADA" THEN StrInt(IntOf(sz, SizeUnit)) ELSE StrFloat(sz, SizeDigits)

\* Lines 1011-1044: the order action.
OrderWire(c, id, is_buy, px, is_int, sz) ==
    [ a |-> id, b |-> is_buy, p |-> StrPrice(px, is_int), s |-> StrSize(c, sz),
      r |-> FALSE, t |-> "Gtc" ]

OrderAction(wire) == [ type |-> "order", orders |-> << wire >>, grouping |-> "na" ]

\* sign_l1_action_exact, lines 879-946: the signature stands for the key
\* that made it and for the action, nonce, vault address, expiry and network
\* it was computed over.
SignL1Action(private_key, action, vault_address, nonce, expires_after, is_mainnet) ==
    [ key |-> private_key, over |-> action, nonce |-> nonce,
      vault |-> vault_address, expires |-> expires_after,
      source |-> IF is_mainnet THEN "a" ELSE "b" ]

\* Variant of Payload: the body carries a nonce read after the signing.
Payload_FreshNonceInBody(private_key, action, nonce) ==
    [ action |-> action, nonce |-> nonce + 1,
      signature |-> SignL1Action(private_key, action, "None", nonce, "None", TRUE),
      vaultAddress |-> "None" ]

\* Lines 1047-1067, 1137-1154 and src/hyperliquid_minimal_order.py 155-177:
\* the action is signed for vault None, no expiry and mainnet, and the same
\* nonce goes into the signature and into the body.
Payload(private_key, action, nonce) ==
    [ action |-> action, nonce |-> nonce,
      signature |-> SignL1Action(private_key, action, "None", nonce, "None", TRUE),
      vaultAddress |-> "None" ]

HasError(statuses) == \E i \in 1..Len(statuses) : statuses[i] = "error"

\* Variant of ExecuteRealOrderResult: the statuses are not inspected.
ExecuteRealOrderResult_IgnoresStatuses(r) ==
    IF r.http = 200 /\ r.status = "ok" THEN "True" ELSE "False"

\* Lines 1078-1111: the return value of execute_real_order for a response.
ExecuteRealOrderResult(r) ==
    IF r.http = 0 THEN "False"                       \* requests.post raised
    ELSE IF r.http # 200 THEN "False"
    ELSE IF r.status = "nojson" THEN "False"         \* response.json() raised
    ELSE IF r.status # "ok" THEN "False"
    ELSE IF HasError(r.statuses) THEN "False"
    ELSE "True"

\* Lines 1159-1179: the return value of set_leverage for a response.
SetLeverageResult(r) ==
    IF r.http = 0 THEN "False"
    ELSE IF r.http # 200 THEN "False"
    ELSE IF r.status = "nojson" THEN "False"
    ELSE IF r.status = "ok" THEN "True"
    ELSE "False"

\* src/hyperliquid_minimal_order.py 187-204: the return value of
\* send_minimal_order for a response.
SendMinimalOrderResult(r) ==
    IF r.http = 0 THEN "False"
    ELSE IF r.http # 200 THEN "False"
    ELSE IF r.status = "nojson" THEN "False"         \* response.json() raised
    ELSE "True"

\* The timeout of the request a call waits on at each position (seconds).
\* The POSTs to /exchange of execute_real_order and set_leverage and the
\* request of get_asset_id pass no timeout: requests then waits forever.
NoTimeout == -1
RequestTimeout(o, at) ==
    IF o = "minimal"
    THEN (IF at = "resolve" THEN NoTimeout ELSE 30)
    ELSE (IF at = "respond" THEN NoTimeout ELSE 10)

\* _get_max_leverage, lines 1269-1294
DefaultMaxLeverage == 10
MaxLeverageOf(outcome, u, c, maxlev) ==
    IF outcome = "ok" /\ c \in DOMAIN u /\ maxlev # NoMaxLev
    THEN maxlev ELSE DefaultMaxLeverage

\* Lines 1124-1126: the requested leverage, capped.
CappedLeverage(lev, max_leverage) ==
    IF lev > max_leverage THEN max_leverage ELSE lev

\* Lines 1128-1134: the updateLeverage action.
LeverageAction(id, lev) ==
    [ type |-> "updateLeverage", asset |-> id, isCross |-> TRUE,
      leverage |-> lev ]

---------------------------------------------------------------------------
(* The state machine *)

Idle == pc \in {"idle", "done"}

\* __init__, lines 87-113, called as main does (lines 1314-1321).
NewBot ==
    [ wallet_address |-> "wallet", private_key |-> "key", testnet |-> FALSE,
      trading_pairs |-> << "BTC", "ETH", "SOL", "BNB", "ADA" >>,
      base_url |-> "https://api.hyperliquid.xyz",
      is_running |-> FALSE, last_analysis |-> << >> ]

\* The orchestrator before start() is called.
RunInit ==
    /\ rpc = "off"
    /\ cycle = 0
    /\ orders = << >> /\ todo = << >> /\ attempts = << >>
    /\ clock = 0
    /\ nonces = << >>

\* No gateway call is running.
CallInit ==
    /\ pc = "idle"
    /\ op = "none"
    /\ coin = "None" /\ side = "None" /\ size = 0 /\ price = 0 /\ leverage = 0
    /\ asset_id = None
    /\ reference_price = Unbound
    /\ limit_price = 0 /\ limit_is_int = FALSE
    /\ tick_size = 0 /\ precision = 0
    /\ tick_source = "none" /\ tick_coin = "None"
    /\ payload = NoPayload
    /\ response = NoResponse
    /\ result = "none"
    /\ reqs = NoReqs
    /\ idx_now = None
    /\ reordered = FALSE
    /\ posts = 0 /\ signed = 0

NoVault  == << >>     \* vault_address is None
NoExpiry == -1        \* expires_after is None
NoArgs   == [ action |-> << >>, other |-> << >>, vault |-> NoVault, nonce |-> 0,
              expires |-> NoExpiry, mainnet |-> TRUE ]
NoSigned == [ ser1 |-> << >>, ser2 |-> << >>, data1 |-> << >>, data2 |-> << >>,
              sig1 |-> << >>, sig2 |-> << >> ]

\* PortfolioState: balances in cents, margin_usage in percent, and the
\* signed size (szi) of the position in the coin being processed;
\* NoPosition: the coin is not a key of positions.
NoPosition == 0
NoPortfolio ==
    [ fetch |-> "none", total_balance |-> 0, available_balance |-> 0,
      margin_usage |-> 0, position |-> NoPosition ]
NoData  == -1     \* the coin is not a key of all_market_data
NoOrder ==
    [ coin |-> "None", action |-> "none", size |-> 0, leverage |-> 0,
      confidence |-> 0 ]

\* No coin is being processed.
NoRead ==
    [ portfolio |-> NoPortfolio, last_price |-> NoData, llm |-> "none",
      returned |-> "none", executable_orders |-> { }, order |-> NoOrder,
      positions |-> NoPortfolio ]
NoDone ==
    [ registered |-> "none", risk |-> "none", branch |-> "none",
      side |-> "None", size |-> 0, leverage_success |-> "none",
      subs |-> << >>, ret |-> "none" ]
ExecInit ==
    /\ xpc = "off"
    /\ xin = NoRead
    /\ xout = NoDone

\* Nothing has called the signing functions.
SignInit ==
    /\ hpc = "none"
    /\ hin = NoArgs
    /\ hout = NoSigned

Init ==
    /\ universe \in Universes
    /\ CallInit
    /\ bot = NewBot
    /\ RunInit
    /\ ExecInit
    /\ SignInit

\* A call starts with fresh locals.
Enter(o, c, sd, sz, px, lev) ==
    /\ Idle
    /\ pc' = "resolve"
    /\ op' = o
    /\ coin' = c /\ side' = sd /\ size' = sz /\ price' = px /\ leverage' = lev
    /\ asset_id' = None
    /\ reference_price' = Unbound
    /\ limit_price' = 0 /\ limit_is_int' = FALSE
    /\ tick_size' = 0 /\ precision' = 0
    /\ tick_source' = "none" /\ tick_coin' = "None"
    /\ payload' = NoPayload
    /\ response' = NoResponse
    /\ result' = "none"
    /\ reqs' = NoReqs
    /\ idx_now' = None
    /\ reordered' = FALSE
    /\ posts' = 0 /\ signed' = 0
    /\ UNCHANGED universe
    /\ UNCHANGED outside

\* A call returns: its locals are gone, what it did stays on record.
Leave(r) ==
    /\ pc' = "done"
    /\ result' = r
    /\ coin' = "None" /\ side' = "None" /\ size' = 0 /\ price' = 0
    /\ leverage' = 0
    /\ asset_id' = None
    /\ reference_price' = Unbound
    /\ limit_price' = 0 /\ limit_is_int' = FALSE
    /\ tick_size' = 0 /\ precision' = 0
    /\ tick_source' = "none" /\ tick_coin' = "None"
    /\ payload' = NoPayload
    /\ idx_now' = None
    /\ reordered' = FALSE

\* execute_real_order(coin, side, size, price) is called.
CallExecuteRealOrder ==
    \E c \in Coins, sd \in {"buy", "sell"}, sz \in Sizes, px \in RawPrices :
        Enter("order", c, sd, sz, px, 0)

\* set_leverage(coin, leverage) is called.
CallSetLeverage ==
    \E c \in Coins, lev \in Leverages : Enter("leverage", c, "None", 0, 0, lev)

\* send_minimal_order() is called: ETH, buy, 0.01 at 4000.
CallSendMinimalOrder ==
    Enter("minimal", "ETH", "buy", SizeUnit \div 100, 4000 * Dollar, 0)

\* Lines 953-957 and 1116-1120: _get_asset_id, and the early return.
GetAssetId ==
    /\ UNCHANGED outside
    /\ pc = "resolve" /\ op \in {"order", "leverage"}
    /\ \E outcome \in Outcomes :
        LET id == AssetIdOf(outcome, universe, coin)
        IN  /\ reqs' = [reqs EXCEPT !.asset = AssetReqOutcome(outcome, universe, coin),
                                    !.idx = IndexNow(universe, coin)]
            /\ IF id = None
               THEN /\ Leave("False")
                    /\ UNCHANGED << universe, op, response, posts, signed >>
               ELSE /\ asset_id' = id
                    /\ pc' = IF op = "order" THEN "reference" ELSE "maxlev"
                    /\ UNCHANGED << universe, op, coin, side, size, price,
                                    leverage, reference_price, limit_price,
                                    limit_is_int, tick_size, precision,
                                    tick_source, tick_coin, payload, response,
                                    result, idx_now, reordered, posts, signed >>

\* Lines 962-1000: the meta request for the reference price and the clamp.
GetReferencePrice ==
    /\ UNCHANGED outside
    /\ pc = "reference"
    /\ \E outcome \in Outcomes, mark \in MarkPxs :
        LET step == ReferenceStep(outcome, universe, coin, side = "buy", price, mark)
        IN  /\ reference_price' = step[1]
            /\ limit_price' = step[2]
            /\ reqs' = [reqs EXCEPT !.ref = step[3]]
    /\ pc' = "tick"
    /\ UNCHANGED << universe, op, coin, side, size, price, leverage, asset_id,
                    limit_is_int, tick_size, precision, tick_source, tick_coin,
                    payload, response, result, idx_now, reordered, posts,
                    signed >>

\* Lines 1002-1007: the allMids request, the rounding, and the log line that
\* reads reference_price: an unbound local raises and the call returns False.
GetTickSizeAndRound ==
    /\ UNCHANGED outside
    /\ pc = "tick"
    /\ \E outcome \in Outcomes : \E market_data \in MarketDatas(outcome) :
        LET t == TickSizeAndPrecision(asset_id, outcome, market_data)
        IN  /\ reqs' = [reqs EXCEPT !.mids = outcome]
            /\ IF reference_price = Unbound
               THEN /\ Leave("False")
                    /\ UNCHANGED << universe, op, response, posts, signed >>
               ELSE /\ tick_size' = t[1]
                    /\ precision' = t[2]
                    /\ tick_source' = t[3]
                    /\ tick_coin' = t[4]
                    /\ limit_price' = RoundedLimitPrice(limit_price, t[1], t[2])
                    /\ limit_is_int' = (t[3] = "live" /\ t[2] = 0)
                    /\ pc' = "submit"
                    /\ UNCHANGED << universe, op, coin, side, size, price,
                                    leverage, asset_id, reference_price, payload,
                                    response, result, idx_now, reordered, posts,
                                    signed >>

\* Lines 1009-1082: build the order, sign it and POST it to /exchange.
SubmitOrder ==
    /\ UNCHANGED outside
    /\ pc = "submit" /\ op = "order"
    /\ \E nonce \in Clock :
        payload' = Payload(bot.private_key,
                           OrderAction(OrderWire(coin, asset_id, side = "buy",
                                                 limit_price, limit_is_int, size)),
                           nonce)
    /\ signed' = signed + 1
    /\ posts' = posts + 1
    /\ idx_now' = IndexNow(universe, coin)
    /\ pc' = "respond"
    /\ UNCHANGED << universe, op, coin, side, size, price, leverage, asset_id,
                    reference_price, limit_price, limit_is_int, tick_size,
                    precision, tick_source, tick_coin, response, result, reqs,
                    reordered >>

\* Variant of OrderResponse: after a failed submission the order is POSTed
\* once more.
OrderResponse_Retries ==
    /\ UNCHANGED outside
    /\ pc = "respond" /\ op = "order"
    /\ \E r \in Responses :
        /\ response' = r
        /\ IF ExecuteRealOrderResult(r) = "True"
           THEN Leave("True")
           ELSE /\ pc' = "submit"
                /\ UNCHANGED << coin, side, size, price, leverage, asset_id,
                                reference_price, limit_price, limit_is_int,
                                tick_size, precision, tick_source, tick_coin,
                                payload, result, idx_now, reordered >>
    /\ UNCHANGED << universe, op, reqs, posts, signed >>

\* Lines 1084-1111: the exchange answers; the response is classified.
OrderResponse ==
    /\ UNCHANGED outside
    /\ pc = "respond" /\ op = "order"
    /\ \E r \in Responses :
        /\ response' = r
        /\ Leave(ExecuteRealOrderResult(r))
    /\ UNCHANGED << universe, op, reqs, posts, signed >>

\* Lines 1122-1126: _get_max_leverage and the cap.
GetMaxLeverage ==
    /\ UNCHANGED outside
    /\ pc = "maxlev"
    /\ \E outcome \in Outcomes, maxlev \in MaxLevs :
        /\ reqs' = [reqs EXCEPT !.maxlev = outcome, !.max = maxlev]
        /\ leverage' = CappedLeverage(leverage,
                           MaxLeverageOf(outcome, universe, coin, maxlev))
    /\ pc' = "submit"
    /\ UNCHANGED << universe, op, coin, side, size, price, asset_id,
                    reference_price, limit_price, limit_is_int, tick_size,
                    precision, tick_source, tick_coin, payload, response,
                    result, idx_now, reordered, posts, signed >>

\* Lines 1128-1163: build updateLeverage, sign it and POST it to /exchange.
SubmitLeverage ==
    /\ UNCHANGED outside
    /\ pc = "submit" /\ op = "leverage"
    /\ \E nonce \in Clock :
        payload' = Payload(bot.private_key, LeverageAction(asset_id, leverage),
                           nonce)
    /\ signed' = signed + 1
    /\ posts' = posts + 1
    /\ idx_now' = IndexNow(universe, coin)
    /\ pc' = "respond"
    /\ UNCHANGED << universe, op, coin, side, size, price, leverage, asset_id,
                    reference_price, limit_price, limit_is_int, tick_size,
                    precision, tick_source, tick_coin, response, result, reqs,
                    reordered >>

\* Lines 1165-1179
LeverageResponse ==
    /\ UNCHANGED outside
    /\ pc = "respond" /\ op = "leverage"
    /\ \E r \in Responses :
        /\ response' = r
        /\ Leave(SetLeverageResult(r))
    /\ UNCHANGED << universe, op, reqs, posts, signed >>

\* src/hyperliquid_minimal_order.py 96-114: get_asset_id has no try/except
\* and no timeout; an exception of the request leaves send_minimal_order.
MinimalGetAssetId ==
    /\ UNCHANGED outside
    /\ pc = "resolve" /\ op = "minimal"
    /\ \E outcome \in Outcomes :
        LET id == AssetIdOf(outcome, universe, coin)
        IN  /\ reqs' = [reqs EXCEPT !.asset = AssetReqOutcome(outcome, universe, coin),
                                    !.idx = IndexNow(universe, coin)]
            /\ IF outcome = "exc"
               THEN /\ Leave("raised")
                    /\ UNCHANGED << universe, op, response, posts, signed >>
               ELSE IF id = None
               THEN /\ Leave("False")
                    /\ UNCHANGED << universe, op, response, posts, signed >>
               ELSE /\ asset_id' = id
                    /\ pc' = "submit"
                    /\ UNCHANGED << universe, op, coin, side, size, price,
                                    leverage, reference_price, limit_price,
                                    limit_is_int, tick_size, precision,
                                    tick_source, tick_coin, payload, response,
                                    result, idx_now, reordered, posts, signed >>

\* src/hyperliquid_minimal_order.py 116-188: the order is built from the raw
\* arguments (str(limit_px), str(sz)), signed and POSTed.
MinimalSubmit ==
    /\ UNCHANGED outside
    /\ pc = "submit" /\ op = "minimal"
    /\ \E nonce \in Clock :
        payload' = Payload(bot.private_key,
                           OrderAction(
                               [ a |-> asset_id, b |-> side = "buy",
                                 p |-> StrInt(price \div Dollar),
                                 s |-> StrFloat(size, SizeDigits),
                                 r |-> FALSE, t |-> "Gtc" ]),
                           nonce)
    /\ signed' = signed + 1
    /\ posts' = posts + 1
    /\ idx_now' = IndexNow(universe, coin)
    /\ pc' = "respond"
    /\ UNCHANGED << universe, op, coin, side, size, price, leverage, asset_id,
                    reference_price, limit_price, limit_is_int, tick_size,
                    precision, tick_source, tick_coin, response, result, reqs,
                    reordered >>

\* src/hyperliquid_minimal_order.py 187-204
MinimalResponse ==
    /\ UNCHANGED outside
    /\ pc = "respond" /\ op = "minimal"
    /\ \E r \in Responses :
        /\ response' = r
        /\ Leave(SendMinimalOrderResult(r))
    /\ UNCHANGED << universe, op, reqs, posts, signed >>

\* The exchange lists, delists or reorders assets between the request that
\* resolved the asset id and the submission.
ExchangeReorders ==
    /\ UNCHANGED outside
    /\ pc \in {"reference", "tick", "maxlev", "submit"}
    /\ \E u \in Universes \ {universe} : universe' = u
    /\ reordered' = TRUE
    /\ UNCHANGED << pc, op, coin, side, size, price, leverage, asset_id,
                    reference_price, limit_price, limit_is_int, tick_size,
                    precision, tick_source, tick_coin, payload, response,
                    result, reqs, idx_now, posts, signed >>

\* The exchange never answers a request that was sent without a timeout:
\* requests.post does not return and the call stays where it is for good.
ExchangeNeverAnswers ==
    /\ UNCHANGED outside
    /\ pc \in {"resolve", "reference", "tick", "maxlev", "respond"}
    /\ RequestTimeout(op, pc) = NoTimeout
    /\ pc' = "blocked"
    /\ UNCHANGED << universe, op, coin, side, size, price, leverage, asset_id,
                    reference_price, limit_price, limit_is_int, tick_size,
                    precision, tick_source, tick_coin, payload, response,
                    result, reqs, idx_now, reordered, posts, signed >>

Next ==
    \/ CallExecuteRealOrder
    \/ CallSetLeverage
    \/ CallSendMinimalOrder
    \/ GetAssetId
    \/ GetReferencePrice
    \/ GetTickSizeAndRound
    \/ SubmitOrder
    \/ OrderResponse
    \/ GetMaxLeverage
    \/ SubmitLeverage
    \/ LeverageResponse
    \/ MinimalGetAssetId
    \/ MinimalSubmit
    \/ MinimalResponse
    \/ ExchangeReorders
    \/ ExchangeNeverAnswers

Spec == Init /\ [][Next]_vars

---------------------------------------------------------------------------
(* The orchestrator: start, run_trading_cycle, execute_executable_order.   *)
(* Here a whole gateway call is one step; its outcome is computed by the   *)
(* operators of the call-level model above.                                *)

\* The actions an order of the LLM may name, and the orders of one cycle: a
\* dict, in insertion order, of coin -> order.
OrderActions == { "hold", "buy", "close_position", "change_leverage" }
LLMOrders == [ coin : Coins, action : OrderActions ]
ExecutableOrders ==
    { << o >> : o \in LLMOrders }
    \cup { oo \in { << o1, o2 >> : o1 \in LLMOrders, o2 \in LLMOrders } :
               oo[1].coin # oo[2].coin }

\* The bots main can construct: the private key of the environment may not
\* be a key at all, and Account.from_key then raises.
Bots == { NewBot, [NewBot EXCEPT !.private_key = "malformed"] }
KeyValid(private_key) == private_key # "malformed"

\* reversed(coins_list), line 741
RECURSIVE Reversed(_)
Reversed(sq) == IF sq = << >> THEN << >>
                ELSE Reversed(Tail(sq)) \o << Head(sq) >>

OrderOf(c) == CHOOSE o \in { orders[i] : i \in 1..Len(orders) } : o.coin = c

\* A payload a gateway call signed and POSTed.
Submitted(type, c, nonce) ==
    [ nonce |-> nonce, type |-> type, coin |-> c, cycle |-> cycle ]

\* The exchange's universes with every listed coin at its usual index.
RunUniverses ==
    { u \in Universes :
        \A c \in DOMAIN u : u[c] = (IF c = "ADA" THEN 65 ELSE 1) }

InitBot ==
    /\ universe \in RunUniverses
    /\ CallInit
    /\ bot \in Bots
    /\ RunInit
    /\ ExecInit
    /\ SignInit

\* start(), lines 811-816
Start ==
    /\ rpc = "off"
    /\ bot' = [bot EXCEPT !.is_running = TRUE]
    /\ rpc' = "cycle"
    /\ UNCHANGED << callvars, signvars, execvars, cycle, orders, todo, attempts, clock, nonces >>

\* run_trading_cycle up to the loop, lines 706-741: the portfolio, the market
\* data and the orders of the LLM.  Without orders the cycle returns; an
\* exception here ends in the outer except.
RunTradingCycle ==
    /\ rpc = "cycle" /\ bot.is_running
    /\ cycle < MaxCycles
    /\ cycle' = cycle + 1
    /\ nonces' = << >>
    /\ \/ /\ \E eo \in ExecutableOrders :
                /\ orders' = eo
                /\ todo' = Reversed([ i \in 1..Len(eo) |-> eo[i].coin ])
          /\ attempts' = << >>
          /\ rpc' = "loop"
       \/ /\ orders' = << >> /\ todo' = << >>
          /\ \E how \in { "no_orders", "cycle_error" } :
                attempts' = << [ coin |-> "None", outcome |-> how ] >>
          /\ rpc' = "sleep"
    /\ UNCHANGED << callvars, signvars, execvars, bot, clock >>

\* The loop goes on to the next coin with this coin's attempt recorded.
Record(outcome) ==
    /\ attempts' = Append(attempts, [ coin |-> Head(todo), outcome |-> outcome ])
    /\ todo' = Tail(todo)
    /\ rpc' = "loop"

\* Lines 772-792: what the cycle records once execute_executable_order has
\* returned.  complete: the order holds every key the summary reads
\* (reasoning, confidence, size, leverage); reading a key the order lacks
\* raises inside the inner try.
Registered(o, trade_result, complete) ==
    IF o.action = "hold" THEN (IF complete THEN "hold" ELSE "processing_error")
    ELSE IF trade_result = "True"
    THEN (IF complete THEN "executed" ELSE "processing_error")
    ELSE "failed"

\* Lines 742-770 and 571-704: the loop body for one coin up to the first
\* gateway call.  risk_management_check runs outside the inner try: when it
\* raises, the outer except ends the cycle.
ProcessCoin ==
    /\ rpc = "loop" /\ todo # << >>
    /\ LET o == OrderOf(Head(todo))
       IN  \E has_data \in BOOLEAN, risk \in { "pass", "fail", "raise" },
              has_position \in BOOLEAN, complete \in BOOLEAN :
             IF ~has_data THEN Record("no_data")
             ELSE IF risk = "raise"
             THEN /\ attempts' = Append(attempts,
                        [ coin |-> Head(todo), outcome |-> "cycle_error" ])
                  /\ rpc' = "sleep"
                  /\ UNCHANGED todo
             ELSE IF risk = "fail" THEN Record("risk_failed")
             ELSE IF o.action = "hold" THEN Record(Registered(o, "False", complete))
             ELSE IF o.action = "change_leverage" /\ has_position
             THEN Record(Registered(o, "True", complete))
             ELSE IF o.action = "close_position" /\ has_position
             THEN rpc' = "order" /\ UNCHANGED << todo, attempts >>
             ELSE rpc' = "leverage" /\ UNCHANGED << todo, attempts >>
    /\ UNCHANGED << callvars, signvars, execvars, bot, cycle, orders, clock, nonces >>

\* Variant of CycleSetLeverage: a failed leverage change raises out of the
\* loop instead of returning False.
CycleSetLeverage_FailureEndsCycle ==
    /\ rpc = "leverage"
    /\ \E o_asset \in Outcomes, t \in clock..MaxClock,
          res \in { SetLeverageResult(r) : r \in Responses } :
        IF AssetIdOf(o_asset, universe, Head(todo)) = None
           \/ ~KeyValid(bot.private_key)
        THEN /\ attempts' = Append(attempts,
                    [ coin |-> Head(todo), outcome |-> "failed" ])
             /\ rpc' = "sleep"
             /\ UNCHANGED << todo, clock, nonces >>
        ELSE /\ clock' = t
             /\ nonces' = Append(nonces, Submitted("updateLeverage", Head(todo), t))
             /\ IF res = "True"
                THEN rpc' = "order" /\ UNCHANGED << todo, attempts >>
                ELSE /\ attempts' = Append(attempts,
                            [ coin |-> Head(todo), outcome |-> "failed" ])
                     /\ rpc' = "sleep"
                     /\ UNCHANGED todo
    /\ UNCHANGED << callvars, signvars, execvars, bot, cycle, orders >>

\* set_leverage called by execute_executable_order (lines 640-645, 680-685),
\* lines 1113-1179 as one step: nothing is signed without an asset id or a
\* key; the nonce is the clock's reading at line 1137.
CycleSetLeverage ==
    /\ rpc = "leverage"
    /\ \E o_asset \in Outcomes, t \in clock..MaxClock,
          res \in { SetLeverageResult(r) : r \in Responses } :
        IF AssetIdOf(o_asset, universe, Head(todo)) = None
           \/ ~KeyValid(bot.private_key)
        THEN /\ Record(Registered(OrderOf(Head(todo)), "False", TRUE))
             /\ UNCHANGED << clock, nonces >>
        ELSE /\ clock' = t
             /\ nonces' = Append(nonces, Submitted("updateLeverage", Head(todo), t))
             /\ IF res = "True"
                THEN rpc' = "order" /\ UNCHANGED << todo, attempts >>
                ELSE Record(Registered(OrderOf(Head(todo)), "False", TRUE))
    /\ UNCHANGED << callvars, signvars, execvars, bot, cycle, orders >>

\* execute_real_order called by execute_executable_order, lines 948-1111 as
\* one step: nothing is signed without an asset id, a reference price or a
\* key; the nonce is the clock's reading at line 1047.
CycleExecuteRealOrder ==
    /\ rpc = "order"
    /\ \E o_asset \in Outcomes, o_ref \in Outcomes, t \in clock..MaxClock,
          res \in { ExecuteRealOrderResult(r) : r \in Responses },
          complete \in BOOLEAN :
        IF \/ AssetIdOf(o_asset, universe, Head(todo)) = None
           \/ ReferenceStep(o_ref, universe, Head(todo), TRUE, 100 * Dollar,
                            100 * Dollar)[1] = Unbound
           \/ ~KeyValid(bot.private_key)
        THEN /\ Record(Registered(OrderOf(Head(todo)), "False", TRUE))
             /\ UNCHANGED << clock, nonces >>
        ELSE /\ clock' = t
             /\ nonces' = Append(nonces, Submitted("order", Head(todo), t))
             /\ Record(Registered(OrderOf(Head(todo)), res, complete))
    /\ UNCHANGED << callvars, signvars, execvars, bot, cycle, orders >>

\* The exchange never answers the POST of the gateway call in progress,
\* which was sent without a timeout: the bot waits for good.
CycleCallBlocks ==
    /\ rpc \in { "leverage", "order" }
    /\ RequestTimeout(rpc, "respond") = NoTimeout
    /\ AssetIdOf("ok", universe, Head(todo)) # None
    /\ KeyValid(bot.private_key)
    /\ \E t \in clock..MaxClock :
        /\ clock' = t
        /\ nonces' = Append(nonces,
               Submitted(IF rpc = "order" THEN "order" ELSE "updateLeverage",
                         Head(todo), t))
    /\ rpc' = "blocked"
    /\ UNCHANGED << callvars, signvars, execvars, bot, cycle, orders, todo, attempts >>

\* Lines 794-797: the loop is over, the cycle returns.
EndOfCycle ==
    /\ rpc = "loop" /\ todo = << >>
    /\ rpc' = "sleep"
    /\ UNCHANGED << callvars, signvars, execvars, bot, cycle, orders, todo, attempts, clock, nonces >>

\* Lines 817-820: start() sleeps and loops; the clock does not go back.
Sleep ==
    /\ rpc = "sleep" /\ bot.is_running
    /\ \E t \in clock..MaxClock : clock' = t
    /\ rpc' = "cycle"
    /\ UNCHANGED << callvars, signvars, execvars, bot, cycle, orders, todo, attempts, nonces >>

\* Lines 822-827: Ctrl-C during the sleep ends start().
KeyboardInterrupt ==
    /\ rpc = "sleep"
    /\ bot' = [bot EXCEPT !.is_running = FALSE]
    /\ rpc' = "stopped"
    /\ UNCHANGED << callvars, signvars, execvars, cycle, orders, todo, attempts, clock, nonces >>

NextBot ==
    \/ Start
    \/ RunTradingCycle
    \/ ProcessCoin
    \/ CycleSetLeverage
    \/ CycleExecuteRealOrder
    \/ CycleCallBlocks
    \/ EndOfCycle
    \/ Sleep
    \/ KeyboardInterrupt

SpecBot == InitBot /\ [][NextBot]_vars

---------------------------------------------------------------------------
(* Signing at the level of bytes: action_hash, construct_phantom_agent and *)
(* sign_l1_action_exact (lines 879-946; src/hyperliquid_minimal_order.py   *)
(* 25-88).  A byte is a number in 0..255.  A Python value is a record      *)
(* [t, v]; a dict is the sequence of its <<key, value>> items in insertion *)
(* order, which is the order Python iterates it in.                        *)

\* The printable ASCII characters, from code 32; the double quote (34), the
\* backslash (92) and the backquote (96), which no key or value of an action
\* holds, are named.
AsciiChars ==
    << " ", "!", "quote", "#", "$", "%", "&", "'", "(", ")", "*", "+", ",", "-",
       ".", "/", "0", "1", "2", "3", "4", "5", "6", "7", "8", "9", ":", ";",
       "<", "=", ">", "?", "@", "A", "B", "C", "D", "E", "F", "G", "H", "I",
       "J", "K", "L", "M", "N", "O", "P", "Q", "R", "S", "T", "U", "V", "W",
       "X", "Y", "Z", "[", "backslash", "]", "^", "_", "backquote", "a", "b", "c", "d", "e",
       "f", "g", "h", "i", "j", "k", "l", "m", "n", "o", "p", "q", "r", "s",
       "t", "u", "v", "w", "x", "y", "z", "{", "|", "}", "~" >>

\* ord(ch)
OrdTable ==
    [ ch \in { AsciiChars[i] : i \in 1..Len(AsciiChars) } |->
        31 + (CHOOSE i \in 1..Len(AsciiChars) : AsciiChars[i] = ch) ]
Ord(ch) == OrdTable[ch]

\* s.encode("utf-8") of an ASCII string
Utf8(s) == [ i \in 1..Len(s) |-> Ord(s[i]) ]

\* n.to_bytes(k, "big")
RECURSIVE ToBytes(_, _)
ToBytes(n, k) == IF k = 0 THEN << >>
                 ELSE ToBytes(n \div 256, k - 1) \o << n % 256 >>

PyNone    == [ t |-> "nil", v |-> 0 ]
PyBool(b) == [ t |-> "bool", v |-> b ]
PyInt(n)  == [ t |-> "int", v |-> n ]
PyStr(s)  == [ t |-> "str", v |-> s ]
PyList(l) == [ t |-> "list", v |-> l ]
PyDict(d) == [ t |-> "map", v |-> d ]

\* Variant of DictItems: the items sorted by the first byte in which their
\* keys differ, as a canonical encoder would emit them.
RECURSIVE KeyBefore(_, _)
KeyBefore(a, b) ==
    IF a = << >> THEN b # << >>
    ELSE IF b = << >> THEN FALSE
    ELSE IF Ord(Head(a)) # Ord(Head(b)) THEN Ord(Head(a)) < Ord(Head(b))
    ELSE KeyBefore(Tail(a), Tail(b))

DictItems_Sorted(d) ==
    [ i \in 1..Len(d) |->
        CHOOSE it \in { d[j] : j \in 1..Len(d) } :
            Cardinality({ j \in 1..Len(d) : KeyBefore(d[j][1], it[1]) }) = i - 1 ]

\* The items of a dict in the order msgpack.packb iterates them: insertion
\* order.
DictItems(d) == d

\* msgpack.packb(value), for the values an action is made of: None, bool,
\* int >= 0, str, list and dict of up to 15 entries.
RECURSIVE Pack(_)
RECURSIVE PackAll(_)
RECURSIVE PackItems(_)
\* Variant of Pack: the entries of a map are emitted sorted by key.
Pack_SortedMaps(x) ==
    IF x.t = "map" THEN << 128 + Len(x.v) >> \o PackItems(DictItems_Sorted(x.v))
    ELSE IF x.t = "list" THEN << 144 + Len(x.v) >> \o PackAll(x.v)
    ELSE IF x.t = "str" THEN << 160 + Len(x.v) >> \o Utf8(x.v)
    ELSE IF x.t = "int" THEN (IF x.v < 128 THEN << x.v >>
                              ELSE << 204, x.v >>)
    ELSE IF x.t = "bool" THEN << IF x.v THEN 195 ELSE 194 >>
    ELSE << 192 >>

Pack(x) ==
    IF x.t = "nil" THEN << 192 >>
    ELSE IF x.t = "bool" THEN << IF x.v THEN 195 ELSE 194 >>
    ELSE IF x.t = "int"
    THEN (IF x.v < 128 THEN << x.v >>
          ELSE IF x.v < 256 THEN << 204, x.v >>
          ELSE IF x.v < 65536 THEN << 205 >> \o ToBytes(x.v, 2)
          ELSE << 206 >> \o ToBytes(x.v, 4))
    ELSE IF x.t = "str"
    THEN (IF Len(x.v) < 32 THEN << 160 + Len(x.v) >> \o Utf8(x.v)
          ELSE << 217, Len(x.v) >> \o Utf8(x.v))
    ELSE IF x.t = "list" THEN << 144 + Len(x.v) >> \o PackAll(x.v)
    ELSE << 128 + Len(x.v) >> \o PackItems(DictItems(x.v))

PackAll(l) == IF l = << >> THEN << >> ELSE Pack(Head(l)) \o PackAll(Tail(l))

PackItems(d) ==
    IF d = << >> THEN << >>
    ELSE Pack(PyStr(Head(d)[1])) \o Pack(Head(d)[2]) \o PackItems(Tail(d))

\* int(pair of hex digits, 16), for lowercase digits
HexDigit(ch) ==
    IF Ord(ch) >= Ord("a") THEN 10 + Ord(ch) - Ord("a") ELSE Ord(ch) - Ord("0")

\* str.lower() of one character
Lower(ch) ==
    IF Ord(ch) >= Ord("A") /\ Ord(ch) <= Ord("Z")
    THEN AsciiChars[Ord(ch) + 32 - 31] ELSE ch

\* bytes.fromhex(s)
RECURSIVE FromHex(_)
FromHex(s) ==
    IF Len(s) < 2 THEN << >>
    ELSE << 16 * HexDigit(s[1]) + HexDigit(s[2]) >>
         \o FromHex(SubSeq(s, 3, Len(s)))

\* address_to_bytes: bytes.fromhex(address[2:].lower())
AddressToBytes(address) ==
    FromHex([ i \in 1..(Len(address) - 2) |-> Lower(address[i + 2]) ])

\* Variant of ActionHashData: the nonce is appended little-endian.
ActionHashData_LittleEndianNonce(action, vault_address, nonce, expires_after) ==
    Pack(action)
    \o [ i \in 1..8 |-> ToBytes(nonce, 8)[9 - i] ]
    \o (IF vault_address = NoVault THEN << 0 >>
        ELSE << 1 >> \o AddressToBytes(vault_address))
    \o (IF expires_after # NoExpiry THEN << 0 >> \o ToBytes(expires_after, 8)
        ELSE << >>)

\* Variant of ActionHashData: a vault address is marked but its bytes are
\* not appended.
ActionHashData_VaultMarkerOnly(action, vault_address, nonce, expires_after) ==
    Pack(action)
    \o ToBytes(nonce, 8)
    \o (IF vault_address = NoVault THEN << 0 >> ELSE << 1 >>)
    \o (IF expires_after # NoExpiry THEN << 0 >> \o ToBytes(expires_after, 8)
        ELSE << >>)

\* action_hash, lines 886-897: the bytes handed to keccak.
ActionHashData(action, vault_address, nonce, expires_after) ==
    Pack(action)
    \o ToBytes(nonce, 8)
    \o (IF vault_address = NoVault THEN << 0 >>
        ELSE << 1 >> \o AddressToBytes(vault_address))
    \o (IF expires_after # NoExpiry THEN << 0 >> \o ToBytes(expires_after, 8)
        ELSE << >>)

\* keccak.new(data=data, digest_bits=256).digest(): the digest stands for
\* the bytes it was computed from (no collisions).
Keccak256(data) == [ keccak256 |-> data ]

\* construct_phantom_agent, lines 899-903
PhantomAgent(hash_bytes, is_mainnet) ==
    [ source |-> IF is_mainnet THEN "a" ELSE "b", connectionId |-> hash_bytes ]

\* Lines 930-946: the {r, s, v} of account.sign_message over the typed data
\* of the phantom agent; ECDSA signing in eth_account is deterministic, so
\* the signature stands for the key and the message.
SignL1ActionExact(private_key, action, vault_address, nonce, expires_after, is_mainnet) ==
    IF ~KeyValid(private_key) THEN [ raised |-> "ValueError" ]
    ELSE [ signer  |-> private_key,
           message |-> PhantomAgent(
                          Keccak256(ActionHashData(action, vault_address, nonce,
                                                   expires_after)),
                          is_mainnet) ]

\* The keys and strings of the actions, as character sequences.
S_type     == << "t", "y", "p", "e" >>
S_asset    == << "a", "s", "s", "e", "t" >>
S_isCross  == << "i", "s", "C", "r", "o", "s", "s" >>
S_leverage == << "l", "e", "v", "e", "r", "a", "g", "e" >>
S_updateLeverage ==
    << "u", "p", "d", "a", "t", "e", "L", "e", "v", "e", "r", "a", "g", "e" >>
S_order    == << "o", "r", "d", "e", "r" >>
S_orders   == << "o", "r", "d", "e", "r", "s" >>
S_grouping == << "g", "r", "o", "u", "p", "i", "n", "g" >>
S_na       == << "n", "a" >>
S_limit    == << "l", "i", "m", "i", "t" >>
S_tif      == << "t", "i", "f" >>
S_Gtc      == << "G", "t", "c" >>

\* Lines 1128-1134: the updateLeverage action as the code builds the dict.
LeverageDict(id, lev) ==
    << << S_type, PyStr(S_updateLeverage) >>, << S_asset, PyInt(id) >>,
       << S_isCross, PyBool(TRUE) >>, << S_leverage, PyInt(lev) >> >>

\* Lines 1013-1038: the order wire as the code builds the dict.
WireDict(id, is_buy, p, s) ==
    << << << "a" >>, PyInt(id) >>, << << "b" >>, PyBool(is_buy) >>,
       << << "p" >>, PyStr(p) >>, << << "s" >>, PyStr(s) >>,
       << << "r" >>, PyBool(FALSE) >>,
       << << "t" >>,
          PyDict(<< << S_limit, PyDict(<< << S_tif, PyStr(S_Gtc) >> >>) >> >>) >> >>

\* Lines 1040-1044: the order action as the code builds the dict.
OrderDict(wire) ==
    << << S_type, PyStr(S_order) >>, << S_orders, PyList(<< PyDict(wire) >>) >>,
       << S_grouping, PyStr(S_na) >> >>

\* The dicts holding the items of d, in every insertion order.
Reorderings(d) ==
    { p \in [ 1..Len(d) -> { d[i] : i \in 1..Len(d) } ] :
        \A i, j \in 1..Len(d) : i # j => p[i] # p[j] }

\* Python's dict equality: the same keys with the same values, whatever the
\* insertion order.
DictEqual(d, e) ==
    /\ Len(d) = Len(e)
    /\ { d[i] : i \in 1..Len(d) } = { e[i] : i \in 1..Len(e) }

\* The arguments the signing functions are applied to.
SignActions ==
    Reorderings(LeverageDict(150, 5))
    \cup Reorderings(OrderDict(WireDict(1, TRUE, StrFloat(95 * Dollar, PriceDigits),
                                         StrFloat(SizeUnit \div 100, SizeDigits))))
VaultAddress ==
    << "0", "x" >> \o [ i \in 1..40 |-> IF i % 2 = 1 THEN "A" ELSE "b" ]
SignArgs ==
    { a \in [ action : SignActions, other : SignActions,
              vault : { NoVault, VaultAddress }, nonce : { 16909060 },
              expires : { NoExpiry, 16909061 }, mainnet : BOOLEAN ] :
        DictEqual(a.action, a.other) }

InitSign ==
    /\ universe = << >>
    /\ CallInit
    /\ bot \in Bots
    /\ RunInit
    /\ ExecInit
    /\ hpc = "args"
    /\ hin \in SignArgs
    /\ hout = NoSigned

\* action_hash(action, vault_address, nonce, expires_after)
ActionHashFirst ==
    /\ hpc = "args"
    /\ hout' = [hout EXCEPT
                   !.ser1 = Pack(PyDict(hin.action)),
                   !.data1 = ActionHashData(PyDict(hin.action), hin.vault,
                                            hin.nonce, hin.expires)]
    /\ hpc' = "hashed"
    /\ UNCHANGED << callvars, bot, runvars, execvars, hin >>

\* action_hash(other, vault_address, nonce, expires_after)
ActionHashSecond ==
    /\ hpc = "hashed"
    /\ hout' = [hout EXCEPT
                   !.ser2 = Pack(PyDict(hin.other)),
                   !.data2 = ActionHashData(PyDict(hin.other), hin.vault,
                                            hin.nonce, hin.expires)]
    /\ hpc' = "hashed twice"
    /\ UNCHANGED << callvars, bot, runvars, execvars, hin >>

\* Variant of SignFirst: the signature is kept in self.last_analysis.
SignFirst_KeepsSignature ==
    /\ hpc = "hashed twice"
    /\ hout' = [hout EXCEPT
                   !.sig1 = SignL1ActionExact(bot.private_key, PyDict(hin.action),
                                hin.vault, hin.nonce, hin.expires, hin.mainnet)]
    /\ bot' = [bot EXCEPT !.last_analysis = << "signed" >>]
    /\ hpc' = "signed"
    /\ UNCHANGED << callvars, runvars, execvars, hin >>

\* self.sign_l1_action_exact(action, vault_address, nonce, expires_after,
\* is_mainnet), lines 879-946: it reads self.private_key and its arguments
\* and writes nothing but its return value.
SignFirst ==
    /\ hpc = "hashed twice"
    /\ hout' = [hout EXCEPT
                   !.sig1 = SignL1ActionExact(bot.private_key, PyDict(hin.action),
                                hin.vault, hin.nonce, hin.expires, hin.mainnet)]
    /\ hpc' = "signed"
    /\ UNCHANGED << callvars, bot, runvars, execvars, hin >>

\* The same call once more, on the second action.
SignSecond ==
    /\ hpc = "signed"
    /\ hout' = [hout EXCEPT
                   !.sig2 = SignL1ActionExact(bot.private_key, PyDict(hin.other),
                                hin.vault, hin.nonce, hin.expires, hin.mainnet)]
    /\ hpc' = "signed twice"
    /\ UNCHANGED << callvars, bot, runvars, execvars, hin >>

NextSign ==
    \/ ActionHashFirst
    \/ ActionHashSecond
    \/ SignFirst
    \/ SignSecond

SpecSign == InitSign /\ [][NextSign]_vars

---------------------------------------------------------------------------
(* One coin of one trading cycle, step by step: the reads of               *)
(* run_trading_cycle (portfolio, market data, orders of the LLM), the      *)
(* checks of its loop body, and execute_executable_order with its          *)
(* set_leverage and execute_real_order calls.  A gateway call is one step, *)
(* as in the orchestrator; what it POSTs to /exchange is appended to       *)
(* xout.subs.  Balances are in cents, margin usage and confidence in       *)
(* hundredths, sizes in size units.                                        *)

\* TradingAction, lines 44-51; the dict the LLM returns is used as it comes,
\* so an order may also name an action outside the enum.
ExecActions ==
    { "buy", "sell", "hold", "close_position", "increase_position",
      "reduce_position", "change_leverage", "unknown" }

\* The orders the LLM may return for a coin.
ExecSizes == { 0, SizeUnit, 3 * SizeUnit }
Confidences == { 5, 50 }
ExecOrders ==
    [ coin : Coins, action : ExecActions, size : ExecSizes,
      leverage : Leverages, confidence : Confidences ]

\* Lines 226-234: what get_portfolio_state returns when the request fails.
ZeroPortfolio(outcome) ==
    [ fetch |-> outcome, total_balance |-> 0, available_balance |-> 0,
      margin_usage |-> 0, position |-> NoPosition ]

\* Lines 164-225: the portfolio states a 200 response yields.
Balances ==
    { [ total_balance |-> 500,  available_balance |-> 500,  margin_usage |-> 0 ],
      [ total_balance |-> 5000, available_balance |-> 5000, margin_usage |-> 50 ],
      [ total_balance |-> 5000, available_balance |-> 0,    margin_usage |-> 120 ] }
Positions == { NoPosition, 2 * SizeUnit, 0 - 2 * SizeUnit }
PortfolioStates(outcome, positions) ==
    IF outcome # "ok" THEN { ZeroPortfolio(outcome) }
    ELSE { [ fetch |-> "ok", total_balance |-> b.total_balance,
             available_balance |-> b.available_balance,
             margin_usage |-> b.margin_usage, position |-> p ] :
           b \in Balances, p \in positions }

\* __init__, lines 100-101
MaxMarginUsage == 95
MinBalance == 1

\* Line 557: (size * market_price) / leverage with market_price 100, in cents.
RequiredMargin(sz, lev) == ((((sz * 100) \div lev) * 100) \div SizeUnit)

\* risk_management_check, lines 516-568.  A leverage of 0 makes the division
\* of line 557 raise.
RiskManagementCheck(order, ps) ==
    IF order.action \in { "close_position", "reduce_position", "sell" }
    THEN (IF ps.margin_usage > 100 THEN "False"
          ELSE IF order.confidence < 10 THEN "False"
          ELSE "True")
    ELSE IF ps.margin_usage > MaxMarginUsage THEN "False"
    ELSE IF ps.available_balance < MinBalance THEN "False"
    ELSE IF /\ order.action \in { "buy", "increase_position" }
            /\ ps.total_balance >= 1000
            /\ order.leverage = 0
    THEN "raise"
    ELSE IF /\ order.action \in { "buy", "increase_position" }
            /\ ps.total_balance >= 1000
            /\ RequiredMargin(order.size, order.leverage) > ps.available_balance
    THEN "False"
    ELSE IF order.confidence < 10 THEN "False"
    ELSE "True"

\* Variant of CycleGate: a last_price of 0 passes for market data.
CycleGate_TradesOnZeroPrice(last_price, order, ps) ==
    IF last_price = NoData THEN "no_data"
    ELSE IF RiskManagementCheck(order, ps) = "raise" THEN "cycle_error"
    ELSE IF RiskManagementCheck(order, ps) = "False" THEN "risk_failed"
    ELSE "execute"

\* run_trading_cycle, lines 742-765: what the loop body does with a coin
\* before execute_executable_order.
CycleGate(last_price, order, ps) ==
    IF last_price = NoData \/ last_price = 0 THEN "no_data"
    ELSE IF RiskManagementCheck(order, ps) = "raise" THEN "cycle_error"
    ELSE IF RiskManagementCheck(order, ps) = "False" THEN "risk_failed"
    ELSE "execute"

\* The replies of the LLM API that get_executable_orders_from_llm treats as
\* failures (lines 473-481).
LLMFailures == { "non200", "exc", "nojson", "badjson" }

\* Lines 487-510: the fallback mapping, a hold order for every coin of
\* trading_pairs.
FallbackOrders(trading_pairs) ==
    { [ coin |-> trading_pairs[i], action |-> "hold", size |-> 0,
        leverage |-> 3, confidence |-> 50 ] : i \in 1..Len(trading_pairs) }

\* get_executable_orders_from_llm, lines 400-514: what the call returns.  On
\* a failure of the API the fallback mapping is built (lines 487-510) and the
\* function ends without a return statement: the caller gets None.
ReturnedOrders(reply, parsed) ==
    IF reply \in LLMFailures THEN [ returned |-> "None", executable_orders |-> { } ]
    ELSE [ returned |-> "dict", executable_orders |-> parsed ]

\* execute_executable_order, lines 586-675: the branch an order takes;
\* position is the coin's entry in the portfolio fetched at line 576.
Branch(action, position) ==
    IF action = "hold" THEN "hold"
    ELSE IF action = "close_position" /\ position # NoPosition THEN "close"
    ELSE IF action = "reduce_position" /\ position # NoPosition THEN "reduce"
    ELSE IF action = "increase_position" /\ position # NoPosition THEN "increase"
    ELSE IF action = "change_leverage" /\ position # NoPosition THEN "simulated"
    ELSE "open"

\* Lines 599, 621, 648, 676-690: the side passed to execute_real_order.
SideOf(branch, action) ==
    IF branch \in { "close", "reduce" } THEN "sell"
    ELSE IF branch = "increase" THEN "buy"
    ELSE IF action = "buy" THEN "buy" ELSE "sell"

\* Lines 593, 614-615, 648, 690: the size passed to execute_real_order.
SizeOf(branch, sz, position) ==
    IF branch = "close" THEN position
    ELSE IF branch = "reduce" THEN Min(sz, position)
    ELSE sz

\* Variant of AfterSetLeverage: the order follows whatever set_leverage
\* returned.
AfterSetLeverage_OrdersAnyway(leverage_success) == "order"

\* Lines 641-643 and 683-685: execute_executable_order after set_leverage.
AfterSetLeverage(leverage_success) ==
    IF leverage_success = "True" THEN "order" ELSE "return"

\* The bots main can construct for mainnet and for testnet.
ExecBots == { NewBot, [NewBot EXCEPT !.testnet = TRUE] }

\* A payload execute_executable_order had a gateway call sign and POST: the
\* source is the one the call signed with.
Sub(type, c, sd, sz, signed_payload) ==
    [ type |-> type, coin |-> c, side |-> sd, size |-> sz,
      source |-> signed_payload.signature.source ]

InitExec ==
    /\ universe \in RunUniverses
    /\ CallInit
    /\ bot \in ExecBots
    /\ RunInit
    /\ ExecInit
    /\ SignInit

\* run_trading_cycle, line 712: get_portfolio_state (lines 149-234).
CycleGetPortfolio ==
    /\ xpc = "off"
    /\ \E outcome \in Outcomes :
         \E ps \in PortfolioStates(IF outcome = "ok" THEN "ok" ELSE "failed",
                                   Positions) :
            xin' = [xin EXCEPT !.portfolio = ps]
    /\ xpc' = "market"
    /\ UNCHANGED << callvars, bot, runvars, signvars, xout >>

\* Line 716: get_all_market_data (lines 115-147); the coin has a price, has
\* the price 0 of lines 140 and 145, or is not a coin of trading_pairs.
CycleGetMarketData ==
    /\ xpc = "market"
    /\ \E last_price \in { NoData, 0, 100 * Dollar } :
         xin' = [xin EXCEPT !.last_price = last_price]
    /\ xpc' = "llm"
    /\ UNCHANGED << callvars, bot, runvars, signvars, xout >>

\* Lines 726-730: get_executable_orders_from_llm, and the return of the
\* cycle when it got no orders.
CycleGetOrders ==
    /\ xpc = "llm"
    /\ \E ro \in { << reply, NoOrder >> : reply \in LLMFailures }
                    \cup { << "ok", o >> : o \in ExecOrders } :
         LET reply == ro[1]
             o == ro[2]
             r == ReturnedOrders(reply, { o })
         IN  /\ xin' = [xin EXCEPT
                          !.llm = reply, !.returned = r.returned,
                          !.executable_orders = r.executable_orders,
                          !.order = IF r.executable_orders = { } THEN NoOrder
                                    ELSE o]
             /\ IF r.executable_orders = { }
                THEN /\ xpc' = "done"
                     /\ xout' = [xout EXCEPT !.registered = "no_orders"]
                ELSE /\ xpc' = "check"
                     /\ UNCHANGED xout
    /\ UNCHANGED << callvars, bot, runvars, signvars >>

\* Lines 742-765 and 793-795: the loop body up to execute_executable_order.
CycleCheckCoin ==
    /\ xpc = "check"
    /\ LET g == CycleGate(xin.last_price, xin.order, xin.portfolio)
       IN  /\ xout' = [xout EXCEPT
                          !.risk = IF g = "no_data" THEN "none"
                                   ELSE RiskManagementCheck(xin.order,
                                                            xin.portfolio),
                          !.registered = IF g = "execute" THEN "none" ELSE g]
           /\ xpc' = IF g = "execute" THEN "execute" ELSE "done"
    /\ UNCHANGED << callvars, bot, runvars, signvars, xin >>

\* execute_executable_order, lines 571-690, up to its first gateway call:
\* the portfolio is fetched again (line 576; the positions are as the cycle
\* saw them, or any when the cycle's fetch had failed, or none when this
\* fetch fails) and the order takes its branch.
ExecuteExecutableOrder ==
    /\ xpc = "execute"
    /\ \E outcome \in Outcomes :
         \E ps \in PortfolioStates(
                      IF outcome = "ok" THEN "ok" ELSE "failed",
                      IF xin.portfolio.fetch = "ok"
                      THEN { xin.portfolio.position } ELSE Positions) :
            LET o  == xin.order
                br == Branch(o.action, ps.position)
            IN  /\ xin' = [xin EXCEPT
                             !.positions = [NoPortfolio EXCEPT
                                               !.fetch = ps.fetch,
                                               !.position = ps.position]]
                /\ IF br \in { "hold", "simulated" }
                   THEN /\ xout' = [xout EXCEPT
                                      !.branch = br,
                                      !.ret = IF br = "hold" THEN "False"
                                              ELSE "True",
                                      !.registered =
                                          Registered(o, IF br = "hold"
                                                        THEN "False" ELSE "True",
                                                     TRUE)]
                        /\ xpc' = "done"
                   ELSE /\ xout' = [xout EXCEPT
                                      !.branch = br,
                                      !.side = SideOf(br, o.action),
                                      !.size = SizeOf(br, o.size, ps.position)]
                        /\ xpc' = IF br \in { "increase", "open" }
                                  THEN "leverage" ELSE "order"
    /\ UNCHANGED << callvars, bot, runvars, signvars >>

\* set_leverage called at lines 639 and 681, lines 1113-1179 as one step:
\* without an asset id nothing is POSTed.
ExecSetLeverage ==
    /\ xpc = "leverage"
    /\ \E id \in { AssetIdOf(o, universe, xin.order.coin) : o \in Outcomes },
          max_leverage \in { MaxLeverageOf(o, universe, xin.order.coin, m) :
                                o \in Outcomes, m \in MaxLevs },
          res \in { SetLeverageResult(r) : r \in Responses } :
        LET c  == xin.order.coin
            signed_payload ==
                Payload(bot.private_key,
                        LeverageAction(id, CappedLeverage(xin.order.leverage,
                                                          max_leverage)), 0)
            leverage_success == IF id = None THEN "False" ELSE res
        IN  /\ xout' = [xout EXCEPT
                          !.leverage_success = leverage_success,
                          !.subs = IF id = None THEN @
                                   ELSE Append(@, Sub("updateLeverage", c,
                                                      "None", 0, signed_payload)),
                          !.ret = IF AfterSetLeverage(leverage_success) = "order"
                                  THEN @ ELSE "False",
                          !.registered =
                              IF AfterSetLeverage(leverage_success) = "order"
                              THEN @ ELSE Registered(xin.order, "False", TRUE)]
            /\ xpc' = IF AfterSetLeverage(leverage_success) = "order"
                      THEN "order" ELSE "done"
    /\ UNCHANGED << callvars, bot, runvars, signvars, xin >>

\* execute_real_order called at lines 599, 621, 648 and 690, lines 948-1111
\* as one step: without an asset id or a reference price nothing is POSTed.
ExecRealOrder ==
    /\ xpc = "order"
    /\ \E id \in { AssetIdOf(o, universe, xin.order.coin) : o \in Outcomes },
          ref \in
              { ReferenceStep(o, universe, xin.order.coin, xout.side = "buy",
                              100 * Dollar, 100 * Dollar)[1] : o \in Outcomes },
          res \in { ExecuteRealOrderResult(r) : r \in Responses } :
        LET c  == xin.order.coin
            sent == id # None /\ ref # Unbound
            signed_payload ==
                Payload(bot.private_key,
                        [ type |-> "order", asset |-> id,
                          is_buy |-> xout.side = "buy", size |-> xout.size ], 0)
            success == IF sent THEN res ELSE "False"
        IN  /\ xout' = [xout EXCEPT
                          !.subs = IF sent
                                   THEN Append(@, Sub("order", c, xout.side,
                                                      xout.size, signed_payload))
                                   ELSE @,
                          !.ret = success,
                          !.registered = Registered(xin.order, success, TRUE)]
            /\ xpc' = "done"
    /\ UNCHANGED << callvars, bot, runvars, signvars, xin >>

NextExec ==
    \/ CycleGetPortfolio
    \/ CycleGetMarketData
    \/ CycleGetOrders
    \/ CycleCheckCoin
    \/ ExecuteExecutableOrder
    \/ ExecSetLeverage
    \/ ExecRealOrder

SpecExec == InitExec /\ [][NextExec]_vars

---------------------------------------------------------------------------
(* Properties *)

Failed == {"exc", "non200"}

\* The order object of the payload the running call POSTed.
Wire == payload.action.orders[1]

OrderPosted == pc = "respond" /\ op = "order"

\* Number of characters after the "." of a decimal string (0 without one).
RECURSIVE DecimalsOfStr(_)
DecimalsOfStr(s) == IF s = << >> THEN 0
                    ELSE IF s[Len(s)] = "." THEN 0
                    ELSE IF \A i \in 1..Len(s) : s[i] # "." THEN 0
                    ELSE 1 + DecimalsOfStr(SubSeq(s, 1, Len(s) - 1))

\* The band of 5% around a reference price.
BandLow(ref)  == ref - ref \div 20
BandHigh(ref) == ref + ref \div 20

\* C1: execute_real_order returns True exactly when the POST was answered
\* with HTTP 200, a JSON body whose top-level status is "ok" and no entry of
\* statuses holding an error; every other answer makes it return False.
C1_TrueOnlyForAcceptedOrder ==
    (pc = "done" /\ op = "order") =>
        /\ result \in {"True", "False"}
        /\ result = "True" <=>
              /\ posts = 1
              /\ response.http = 200
              /\ response.status = "ok"
              /\ \A i \in 1..Len(response.statuses) : response.statuses[i] # "error"

C1_Witness ==
    /\ pc = "done" /\ op = "order"
    /\ response.http = 200 /\ response.status = "ok"
    /\ Len(response.statuses) = 2
    /\ response.statuses[1] = "resting" /\ response.statuses[2] = "error"
    /\ result = "False"

\* C2: send_minimal_order does not return True for an HTTP 200 answer whose
\* body carries an embedded per-order error or a top-level status other than
\* "ok".
C2_MinimalRejectsFailedOrder ==
    (/\ pc = "done" /\ op = "minimal"
     /\ response.http = 200
     /\ \/ response.status # "ok"
        \/ \E i \in 1..Len(response.statuses) : response.statuses[i] = "error")
    => result # "True"

C2_Witness ==
    /\ pc = "done" /\ op = "minimal"
    /\ response.http = 200 /\ response.status = "ok"
    /\ Len(response.statuses) = 1 /\ response.statuses[1] = "error"
    /\ result = "True"

C4_AbsentCoinNothingSignedOrPosted ==
    (op \in {"order", "leverage"} /\ reqs.asset = "absent")
    => /\ pc = "done"
       /\ result = "False"
       /\ signed = 0
       /\ posts = 0

C4_Witness ==
    /\ op = "order" /\ reqs.asset = "absent" /\ pc = "done"
    /\ result = "False"

\* C5 as claimed: when an order is POSTed, its asset id is the index the coin
\* has in the exchange's universe at that moment.
C5_AssetIdCurrentAtSubmission ==
    (pc = "respond" /\ op \in {"order", "minimal"}) => Wire.a = idx_now

\* C5 as amended: the asset id of a POSTed order is the index the coin had
\* in the universe the call's asset-id request returned; it is the current
\* index when the exchange did not change its universe in between.
C5_AssetIdAsResolved ==
    (pc = "respond" /\ op \in {"order", "minimal"})
    => /\ Wire.a = reqs.idx
       /\ Wire.a # None
       /\ ~reordered => Wire.a = idx_now

C5_Witness ==
    /\ OrderPosted
    /\ reordered
    /\ idx_now # None
    /\ Wire.a # idx_now
    /\ Wire.a = reqs.idx

\* C6: the tick size and precision used to round a coin's limit price come
\* from that coin's own live metadata: not from another coin's mid price and
\* not from a hardcoded table.
C6_TickOfTheOrderedCoin ==
    (pc \in {"submit", "respond"} /\ op = "order")
    => /\ tick_source = "live"
       /\ tick_coin = coin

C6_Witness ==
    /\ OrderPosted
    /\ coin = "ADA" /\ asset_id = 1
    /\ tick_source = "live" /\ tick_coin = "ETH"

\* C7 as claimed: the limit price of a submitted order lies in the band of
\* 5% around the reference price.
C7_SubmittedPriceInBand ==
    OrderPosted =>
        /\ BandLow(reference_price) <= limit_price
        /\ limit_price <= BandHigh(reference_price)

\* C7 as amended: the limit price of a submitted order is at most half a
\* tick outside the band of 5% around the reference price.
C7_SubmittedPriceWithinHalfTickOfBand ==
    OrderPosted =>
        /\ 2 * BandLow(reference_price) - tick_size <= 2 * limit_price
        /\ 2 * limit_price <= 2 * BandHigh(reference_price) + tick_size

C7_Witness ==
    /\ OrderPosted
    /\ reqs.ref = "ok"
    /\ limit_price < BandLow(reference_price)

\* C8: before tick rounding the limit price is
\* clamp(min(raw, 1.025 ref), 0.95 ref, 1.05 ref) for a buy and
\* clamp(max(raw, 0.975 ref), 0.95 ref, 1.05 ref) for a sell; a sell at 106
\* with reference 100 gives 105, a buy at 96 with reference 100 stays in
\* [95, 105], a buy is never above the band and a sell never below it.
C8_ClampedBeforeRounding ==
    (pc = "tick" /\ reqs.ref = "ok") =>
        LET ref  == reference_price
            bias == IF side = "buy" THEN Min(price, ref + ref \div 40)
                                    ELSE Max(price, ref - ref \div 40)
        IN  /\ limit_price = Max(BandLow(ref), Min(bias, BandHigh(ref)))
            /\ (side = "sell" /\ price = 106 * Dollar /\ ref = 100 * Dollar)
                   => limit_price = 105 * Dollar
            /\ (side = "buy" /\ price = 96 * Dollar /\ ref = 100 * Dollar)
                   => (95 * Dollar <= limit_price /\ limit_price <= 105 * Dollar)
            /\ side = "buy" => limit_price <= BandHigh(ref)
            /\ side = "sell" => limit_price >= BandLow(ref)

C8_Witness ==
    /\ pc = "tick" /\ reqs.ref = "ok"
    /\ side = "sell" /\ price = 106 * Dollar
    /\ reference_price = 100 * Dollar
    /\ limit_price = 105 * Dollar

\* C9: the limit price of a submitted order is a whole multiple of the tick
\* size _get_tick_size_and_precision returned and its string has at most the
\* returned precision of decimal digits, whichever path returned them.
C9_PriceOnTickGrid ==
    OrderPosted =>
        /\ tick_source \in {"live", "default", "except"}
        /\ tick_size > 0
        /\ limit_price % tick_size = 0
        /\ limit_price % Pow10(PriceDigits - precision) = 0
        /\ DecimalsOfStr(Wire.p) <= precision

C9_Witness ==
    /\ OrderPosted
    /\ tick_source = "default"
    /\ reference_price = (1003 * Dollar) \div 10
    /\ side = "buy" /\ price = 50 * Dollar
    /\ limit_price # BandLow(reference_price)

\* C10: for the integer-size asset the size string of the order is the input
\* size truncated toward zero: no fractional part, 16.7 gives "16".
C10_IntegerSizeTruncated ==
    (OrderPosted /\ coin = "ADA") =>
        /\ \A i \in 1..Len(Wire.s) : Wire.s[i] # "."
        /\ Wire.s = (IF size <= 0 - SizeUnit THEN << "-" >> ELSE << >>)
                    \o NatStr(Abs(size) \div SizeUnit)
        /\ size = (167 * SizeUnit) \div 10 => Wire.s = << "1", "6" >>
        /\ size = 0 - (167 * SizeUnit) \div 10 => Wire.s = << "-", "1", "6" >>

C10_Witness ==
    /\ OrderPosted /\ coin = "ADA"
    /\ size = (167 * SizeUnit) \div 10
    /\ Wire.s = << "1", "6" >>

\* C11: for a standard (non-integer-size) asset the size string of the order
\* has no more decimal digits than the asset's size precision; at a size
\* precision of 3 an input of 0.0123 is submitted as "0.012".
C11_StandardSizeWithinPrecision ==
    (OrderPosted /\ coin # "ADA") =>
        /\ DecimalsOfStr(Wire.s) <= 3
        /\ size = (123 * SizeUnit) \div 10000
               => Wire.s = << "0", ".", "0", "1", "2" >>

C11_Witness ==
    /\ OrderPosted /\ coin = "ETH"
    /\ size = (123 * SizeUnit) \div 10000
    /\ Wire.s = << "0", ".", "0", "1", "2", "3" >>
    /\ DecimalsOfStr(Wire.s) = 4

\* C12: each nonce is used for at most one signed action: no two signed
\* payloads the bot submits (the updateLeverage of set_leverage and the order
\* of execute_real_order that follows it, or the payloads of two coins) carry
\* the same nonce, also when the millisecond clock does not advance between
\* the two signings.
C12_NoncesUsedOnce ==
    \A i, j \in 1..Len(nonces) :
        i # j => nonces[i].nonce # nonces[j].nonce

C12_Witness ==
    /\ Len(nonces) >= 2
    /\ nonces[1].type = "updateLeverage" /\ nonces[2].type = "order"
    /\ nonces[1].coin = nonces[2].coin
    /\ nonces[1].nonce = nonces[2].nonce
    /\ clock < MaxClock

\* int.from_bytes(b, "big"): the number a run of bytes spells, most
\* significant byte first.
RECURSIVE FromBytes(_)
FromBytes(b) ==
    IF b = << >> THEN 0
    ELSE 256 * FromBytes(SubSeq(b, 1, Len(b) - 1)) + b[Len(b)]

\* C13: the bytes action_hash feeds to keccak are the serialized action,
\* then the nonce as 8 big-endian bytes, then 0x00 for no vault address or
\* 0x01 and the 20 address bytes, then nothing for no expiry or 0x00 and the
\* expiry as 8 big-endian bytes, in that order and with nothing else, for
\* every combination of vault address and expiry.
C13_HashInputLayout ==
    hpc # "args" =>
        LET d   == hout.data1
            n   == Len(hout.ser1)
            v   == IF hin.vault = NoVault THEN 1 ELSE 21
            e   == IF hin.expires = NoExpiry THEN 0 ELSE 9
        IN  /\ hout.ser1 = Pack(PyDict(hin.action))
            /\ Len(d) = n + 8 + v + e
            /\ SubSeq(d, 1, n) = hout.ser1
            /\ SubSeq(d, n + 1, n + 8) = << 0, 0, 0, 0, 1, 2, 3, 4 >>
            /\ FromBytes(SubSeq(d, n + 1, n + 8)) = hin.nonce
            /\ hin.vault = NoVault => d[n + 9] = 0
            /\ hin.vault # NoVault =>
                   /\ d[n + 9] = 1
                   /\ SubSeq(d, n + 10, n + 29) = [ i \in 1..20 |-> 171 ]
            /\ hin.expires # NoExpiry =>
                   /\ d[n + 8 + v + 1] = 0
                   /\ FromBytes(SubSeq(d, n + 8 + v + 2, n + 8 + v + 9))
                          = hin.expires
                   /\ d[Len(d)] = 5

C13_Witness ==
    /\ hpc = "hashed"
    /\ hin.vault = VaultAddress /\ hin.expires # NoExpiry
    /\ Len(hout.data1) = Len(hout.ser1) + 38
    /\ hout.data1[Len(hout.ser1) + 9] = 1
    /\ hout.data1[Len(hout.ser1) + 30] = 0

\* Both actions have been serialized and hashed.
BothHashed == hpc \in { "hashed twice", "signed", "signed twice" }

\* C14 as stated: two actions holding the same keys and values, inserted in
\* whatever order, serialize to the same bytes and so give action_hash the
\* same bytes to hash for the same nonce, vault address and expiry.
C14_InsertionOrderIrrelevant ==
    (BothHashed /\ DictEqual(hin.action, hin.other)) =>
        /\ hout.ser1 = hout.ser2
        /\ hout.data1 = hout.data2

\* C14 amended: the serialization follows the insertion order. Two actions
\* holding the same keys and values serialize to byte strings of the same
\* length under the same map header, and to the same bytes exactly when
\* their fields were inserted in the same order.
C14_SerializationFollowsInsertionOrder ==
    (BothHashed /\ DictEqual(hin.action, hin.other)) =>
        /\ Len(hout.ser1) = Len(hout.ser2)
        /\ hout.ser1[1] = 128 + Len(hin.action)
        /\ hout.ser2[1] = hout.ser1[1]
        /\ (hout.ser1 = hout.ser2) <=> (hin.action = hin.other)

C14_Witness ==
    /\ hpc = "hashed twice"
    /\ DictEqual(hin.action, hin.other)
    /\ hin.action = LeverageDict(150, 5)
    /\ hin.other[1][1] = S_leverage
    /\ hout.ser1 # hout.ser2
    /\ hout.data1 # hout.data2

\* C15: hashing is deterministic and order-sensitive: action_hash on the
\* same (action, vault, nonce, expiry) hashes the same bytes to the same
\* digest, and on two actions that are equal as dicts but whose keys are in a
\* different order it hashes different bytes to different digests.
C15_DeterministicOrderSensitive ==
    BothHashed =>
        /\ hin.action = hin.other =>
               /\ hout.data1 = hout.data2
               /\ Keccak256(hout.data1) = Keccak256(hout.data2)
        /\ (DictEqual(hin.action, hin.other) /\ hin.action # hin.other) =>
               /\ hout.data1 # hout.data2
               /\ Keccak256(hout.data1) # Keccak256(hout.data2)
               /\ SubSeq(hout.data1, Len(hout.ser1) + 1, Len(hout.data1))
                  = SubSeq(hout.data2, Len(hout.ser2) + 1, Len(hout.data2))

C15_Witness ==
    /\ hpc = "signed twice"
    /\ hin.action[1][1] = S_type /\ hin.other[1][1] = S_grouping
    /\ DictEqual(hin.action, hin.other)
    /\ hout.data1 # hout.data2
    /\ KeyValid(bot.private_key)
    /\ hout.sig1.message.connectionId # hout.sig2.message.connectionId

\* A call of sign_l1_action_exact runs in this step.
SignStep == hpc \in { "hashed twice", "signed" } /\ hpc' # hpc

\* C16: signing is a pure function of the private key, the digest and
\* is_mainnet: a call of sign_l1_action_exact issues no network request,
\* leaves every field of the bot and its arguments as they were, returns a
\* signature by that key over the phantom agent of that digest and source (or
\* raises on a malformed key), and two calls on the same inputs return the
\* same signature.
C16_SigningIsPure ==
    /\ [][ SignStep =>
             /\ bot' = bot
             /\ hin' = hin
             /\ posts' = posts /\ reqs' = reqs /\ payload' = payload
             /\ UNCHANGED runvars ]_vars
    /\ [](hpc = "signed twice" =>
             /\ hout.sig1 =
                  IF bot.private_key = "key"
                  THEN [ signer |-> "key",
                         message |-> [ source |-> IF hin.mainnet THEN "a" ELSE "b",
                                       connectionId |-> Keccak256(hout.data1) ] ]
                  ELSE [ raised |-> "ValueError" ]
             /\ hin.action = hin.other => hout.sig1 = hout.sig2)

C16_Witness ==
    /\ hpc = "signed twice"
    /\ hin.action = hin.other /\ hin.action = LeverageDict(150, 5)
    /\ bot.private_key = "key" /\ ~hin.mainnet
    /\ hout.sig1 = hout.sig2
    /\ hout.sig1.message.source = "b"
    /\ bot.last_analysis = << >> /\ posts = 0

\* The cycle ended before its loop was over: no orders, or an exception
\* outside the inner try.
CycleCutShort ==
    \E i \in 1..Len(attempts) : attempts[i].outcome \in { "no_orders", "cycle_error" }

\* A gateway call of the cycle returns in this step.
GatewayCallReturns == rpc \in { "leverage", "order" } /\ rpc' # "blocked"

\* C17: a failure while one coin's order is processed (no asset id, a
\* signing error, a rejected or failed submission, an exception inside
\* execute_executable_order) ends that coin's attempt only: the attempt is
\* recorded as failed, the loop goes on with the remaining coins, every coin
\* of the cycle's orders gets its attempt, in reversed order, and start()
\* is still running at the sleep that precedes the next cycle.
C17_FailureAbortsOneAttempt ==
    /\ [][ GatewayCallReturns =>
             /\ rpc' \in { "order", "loop" }
             /\ bot' = bot
             /\ rpc' = "order" => rpc = "leverage" /\ todo' = todo
             /\ rpc' = "loop" =>
                   /\ todo' = Tail(todo)
                   /\ Len(attempts') = Len(attempts) + 1
                   /\ attempts'[Len(attempts')].coin = Head(todo)
                   /\ attempts'[Len(attempts')].outcome
                          \in { "failed", "executed", "processing_error" }
                   /\ SubSeq(attempts', 1, Len(attempts)) = attempts ]_vars
    /\ []((rpc = "sleep" /\ ~CycleCutShort) =>
             /\ todo = << >>
             /\ Len(attempts) = Len(orders)
             /\ \A i \in 1..Len(orders) :
                   attempts[i].coin = orders[Len(orders) + 1 - i].coin
             /\ bot.is_running
             /\ cycle < MaxCycles => ENABLED Sleep)
    /\ [](~KeyValid(bot.private_key) =>
             \A i \in 1..Len(attempts) :
                 attempts[i].outcome \notin { "executed" }
                 \/ OrderOf(attempts[i].coin).action = "change_leverage")

C17_Witness ==
    /\ rpc = "sleep" /\ cycle = 1 /\ bot.is_running
    /\ Len(orders) = 2 /\ Len(attempts) = 2
    /\ attempts[1].outcome = "failed"
    /\ attempts[2].outcome = "executed"
    /\ OrderOf(attempts[1].coin).action = "buy"
    /\ OrderOf(attempts[2].coin).action = "buy"

\* C18: no operation of the order pipeline blocks for good: every request
\* that execute_real_order and set_leverage wait on (asset id, reference
\* price, tick size, maximum leverage, the POST to /exchange) carries a
\* timeout, and neither call is ever left waiting on a request that the
\* exchange never answers.
C18_NoCallBlocks ==
    op \in { "order", "leverage" } =>
        /\ pc \in { "resolve", "reference", "tick", "maxlev", "respond" }
               => RequestTimeout(op, pc) # NoTimeout
        /\ pc # "blocked"

C18_Witness ==
    /\ op = "order" /\ pc = "blocked"
    /\ posts = 1 /\ signed = 1
    /\ result = "none"
    /\ RequestTimeout("order", "respond") = NoTimeout
    /\ RequestTimeout("order", "resolve") = 10

\* C19: the gateway does not retry and keeps no state: one call of
\* execute_real_order or set_leverage POSTs to /exchange at most once,
\* whatever the response or error (the step that reads the response ends the
\* call and POSTs nothing), a call starts with nothing on record from the call
\* before it, and no step of a call writes a field of the bot.
C19_AtMostOnePostPerCall ==
    /\ [](op \in { "order", "leverage" } =>
             /\ posts <= 1
             /\ signed <= 1
             /\ (pc = "respond" \/ pc = "blocked") => posts = 1
             /\ pc = "resolve" =>
                    posts = 0 /\ signed = 0 /\ response = NoResponse
                    /\ payload = NoPayload /\ reqs = NoReqs)
    /\ [][ (op \in { "order", "leverage" } /\ pc = "respond") =>
              /\ pc' \in { "done", "blocked" }
              /\ posts' = posts /\ signed' = signed ]_vars
    /\ [][ bot' = bot ]_vars

C19_Witness ==
    /\ op = "order" /\ pc = "done"
    /\ posts = 1
    /\ response # NoResponse
    /\ ExecuteRealOrderResult(response) = "False"
    /\ result = "False"

\* C20: the leverage of every updateLeverage action that set_leverage signs
\* and POSTs is at most the maxLeverage the exchange's metadata holds for the
\* coin, also when the request for the maximum fails or the coin is missing
\* from its response.
C20_LeverageWithinExchangeMax ==
    (op = "leverage" /\ pc = "respond" /\ reqs.max # NoMaxLev) =>
        payload.action.leverage <= reqs.max

C20_Witness ==
    /\ op = "leverage" /\ pc = "respond" /\ posts = 1
    /\ reqs.maxlev \in { "exc", "non200" }
    /\ reqs.max = 3
    /\ leverage = DefaultMaxLeverage
    /\ payload.action.type = "updateLeverage"
    /\ payload.action.leverage = 10

\* The submissions of the coin's processing that are orders.
OrderSubs == { i \in 1..Len(xout.subs) : xout.subs[i].type = "order" }
LeverageSubs == { i \in 1..Len(xout.subs) : xout.subs[i].type = "updateLeverage" }

\* C21: for the actions that open or increase a position,
\* execute_executable_order submits the coin's updateLeverage before the
\* coin's order: an order is only ever the second submission, after an
\* updateLeverage of the same coin for which set_leverage returned True; and
\* when set_leverage returns False no order is submitted for the coin in that
\* call, which returns False.
C21_LeverageBeforeOrder ==
    xout.branch \in { "increase", "open" } =>
        /\ \A i \in OrderSubs :
              /\ i = 2
              /\ xout.subs[1].type = "updateLeverage"
              /\ xout.subs[1].coin = xout.subs[i].coin
              /\ xout.leverage_success = "True"
        /\ xpc = "order" => xout.leverage_success = "True" /\ LeverageSubs = { 1 }
        /\ xout.leverage_success = "False" =>
              OrderSubs = { } /\ xpc = "done" /\ xout.ret = "False"

C21_Witness ==
    /\ xpc = "done" /\ xout.branch = "increase"
    /\ xin.order.action = "increase_position"
    /\ Len(xout.subs) = 2
    /\ xout.subs[1].type = "updateLeverage"
    /\ xout.subs[2].type = "order" /\ xout.subs[2].side = "buy"
    /\ xout.ret = "True"

\* execute_executable_order has taken its branch for the coin.
BranchTaken == xout.branch # "none"

\* C22: the generic open-position branch of execute_executable_order is
\* taken only for buy and sell: for close_position, reduce_position,
\* increase_position, change_leverage or an unrecognized action on a coin
\* without an open position nothing is submitted to the exchange; in
\* particular change_leverage places no order and increase_position no sell
\* order.
C22_OpenBranchOnlyForBuySell ==
    BranchTaken =>
        /\ xout.branch = "open" => xin.order.action \in { "buy", "sell" }
        /\ (xin.order.action \notin { "buy", "sell" }
            /\ xin.positions.position = NoPosition) => xout.subs = << >>
        /\ xin.order.action = "change_leverage" => OrderSubs = { }
        /\ xin.order.action = "increase_position" =>
              \A i \in OrderSubs : xout.subs[i].side # "sell"

C22_Witness ==
    /\ xpc = "done"
    /\ xin.order.action = "close_position"
    /\ xin.portfolio.fetch = "ok" /\ xin.positions.fetch = "ok"
    /\ xin.positions.position = NoPosition
    /\ xout.branch = "open"
    /\ Len(xout.subs) = 2
    /\ xout.subs[1].type = "updateLeverage"
    /\ xout.subs[2].type = "order" /\ xout.subs[2].side = "sell"
    /\ xout.subs[2].size = xin.order.size

\* C23: a close_position on a coin with an open position submits an order
\* that closes the whole position: its side is opposite to the position's
\* direction (sell for a long, buy for a short) and its size is the absolute
\* value of the position's size, hence strictly positive.
C23_CloseClosesEntirePosition ==
    xout.branch = "close" =>
        /\ xout.side = IF xin.positions.position > 0 THEN "sell" ELSE "buy"
        /\ xout.size = Abs(xin.positions.position)
        /\ \A i \in OrderSubs :
              /\ xout.subs[i].side
                   = IF xin.positions.position > 0 THEN "sell" ELSE "buy"
              /\ xout.subs[i].size = Abs(xin.positions.position)
              /\ xout.subs[i].size > 0

C23_Witness ==
    /\ xpc = "done" /\ xout.branch = "close"
    /\ xin.order.action = "close_position"
    /\ xin.positions.position = 0 - 2 * SizeUnit
    /\ Len(xout.subs) = 1
    /\ xout.subs[1].type = "order"
    /\ xout.subs[1].side = "sell"
    /\ xout.subs[1].size = 0 - 2 * SizeUnit

\* C24: a reduce_position never reduces more than is held: the size of the
\* order it submits is strictly positive and at most the absolute size of
\* the position, for long and short positions and every requested size.
C24_ReduceWithinPosition ==
    xout.branch = "reduce" =>
        /\ xpc \in { "order", "done" } =>
              xout.size > 0 /\ xout.size <= Abs(xin.positions.position)
        /\ \A i \in OrderSubs :
              /\ xout.subs[i].size > 0
              /\ xout.subs[i].size <= Abs(xin.positions.position)

C24_Witness ==
    /\ xpc = "done" /\ xout.branch = "reduce"
    /\ xin.order.action = "reduce_position"
    /\ xin.order.size = SizeUnit
    /\ xin.positions.position = 0 - 2 * SizeUnit
    /\ Len(xout.subs) = 1
    /\ xout.subs[1].type = "order" /\ xout.subs[1].side = "sell"
    /\ xout.subs[1].size = 0 - 2 * SizeUnit

\* C25: when the portfolio state cannot be fetched (get_portfolio_state
\* returns the all-zero state after a non-200 response or an exception) the
\* bot does not trade: nothing is submitted to the exchange in that cycle,
\* whatever action the LLM returned.
C25_NoTradeWithoutPortfolio ==
    xin.portfolio.fetch = "failed" =>
        /\ xout.subs = << >>
        /\ xpc \notin { "leverage", "order" }

C25_Witness ==
    /\ xpc = "done"
    /\ xin.portfolio = ZeroPortfolio("failed")
    /\ xin.positions.fetch = "failed"
    /\ xin.order.action = "sell" /\ xin.order.confidence = 50
    /\ xout.risk = "True" /\ xout.branch = "open"
    /\ Len(xout.subs) = 2
    /\ xout.subs[1].type = "updateLeverage"
    /\ xout.subs[2].type = "order" /\ xout.subs[2].side = "sell"

\* The loop body has gone past its checks for the coin.
CoinChecked == xpc \in { "execute", "leverage", "order", "done" } /\ xin.order # NoOrder

\* C26: a coin for which the cycle obtained no real market data (its
\* last_price is 0, or it has no entry in all_market_data) gets nothing
\* submitted in that cycle: execute_executable_order is not called for it and
\* the coin is recorded as without market data; a coin whose
\* risk_management_check returns False gets nothing submitted either.
C26_NoDataOrRiskFailedNoTrade ==
    CoinChecked =>
        /\ (xin.last_price = NoData \/ xin.last_price = 0) =>
              /\ xpc = "done"
              /\ xout.subs = << >>
              /\ xout.branch = "none" /\ xout.ret = "none"
              /\ xout.registered = "no_data"
        /\ xout.risk = "False" =>
              /\ xpc = "done"
              /\ xout.subs = << >>
              /\ xout.branch = "none" /\ xout.ret = "none"
              /\ xout.registered = "risk_failed"
        /\ xout.subs # << >> => xin.last_price > 0 /\ xout.risk = "True"

C26_Witness ==
    /\ xpc = "done"
    /\ xin.last_price = 0
    /\ xin.order.action = "buy" /\ xin.order.confidence = 50
    /\ xin.portfolio.fetch = "ok" /\ xin.portfolio.total_balance = 500
    /\ RiskManagementCheck(xin.order, xin.portfolio) = "True"
    /\ xout.registered = "no_data"
    /\ xout.subs = << >>

\* C27: when the call of the LLM API fails (non-200 status, exception, no
\* JSON in the reply, or a JSON decode error) get_executable_orders_from_llm
\* returns the fallback mapping, which holds a "hold" order for every coin of
\* trading_pairs.
C27_FallbackHoldOrders ==
    xin.llm \in LLMFailures =>
        /\ xin.returned = "dict"
        /\ xin.executable_orders = FallbackOrders(bot.trading_pairs)
        /\ \A i \in 1..Len(bot.trading_pairs) :
              \E o \in xin.executable_orders :
                  o.coin = bot.trading_pairs[i] /\ o.action = "hold"

C27_Witness ==
    /\ xin.llm = "non200"
    /\ xin.returned = "None"
    /\ xin.executable_orders = { }
    /\ xpc = "done"
    /\ xout.registered = "no_orders"
    /\ Len(bot.trading_pairs) = 5

\* A signed payload is on its way to /exchange or has been answered.
PayloadPosted == payload # NoPayload

\* C28: in every payload POSTed to /exchange by execute_real_order,
\* set_leverage and send_minimal_order the action and the nonce of the body
\* are the action and the nonce that were hashed for the body's signature,
\* the vaultAddress of the body (None) is the vault address of the hash, and
\* the payload is not modified between its signing and its submission.
C28_BodyIsWhatWasSigned ==
    /\ [](PayloadPosted =>
             /\ payload.signature.over = payload.action
             /\ payload.signature.nonce = payload.nonce
             /\ payload.signature.vault = payload.vaultAddress
             /\ payload.vaultAddress = "None"
             /\ payload.signature.expires = "None"
             /\ payload.signature.key = bot.private_key
             /\ posts = 1 /\ signed = 1)
    /\ [][ (PayloadPosted /\ payload' # NoPayload) => payload' = payload ]_vars

C28_Witness ==
    /\ op = "leverage" /\ pc = "respond"
    /\ payload.action.type = "updateLeverage"
    /\ payload.nonce = MaxClock
    /\ payload.signature.nonce = MaxClock
    /\ payload.signature.over = payload.action
    /\ payload.vaultAddress = "None"

\* C29: the network the bot signs for follows its testnet setting: a bot
\* constructed with testnet=True signs every action it submits with
\* phantom-agent source "b", a bot constructed with testnet=False with
\* source "a".
C29_SourceFollowsTestnet ==
    \A i \in 1..Len(xout.subs) :
        xout.subs[i].source = IF bot.testnet THEN "b" ELSE "a"

C29_Witness ==
    /\ bot.testnet
    /\ bot.base_url = "https://api.hyperliquid.xyz"
    /\ Len(xout.subs) = 2
    /\ xout.subs[1].type = "updateLeverage" /\ xout.subs[1].source = "a"
    /\ xout.subs[2].type = "order" /\ xout.subs[2].source = "a"

\* Other (nonce, vault address, expiry) inputs action_hash may be given for
\* the same action; an expiry of 0 and a nonce of 0 put 0x00 bytes next to
\* the 0x00 markers.
OtherVaultAddress ==
    << "0", "x" >> \o [ i \in 1..40 |-> IF i % 2 = 1 THEN "0" ELSE "1" ]
OtherHashInputs ==
    [ nonce : { 0, 16909060 },
      vault : { NoVault, VaultAddress, OtherVaultAddress },
      expires : { NoExpiry, 0, 16909061 } ]

\* C30: the hashed byte layout is unambiguous although 0x00 marks both "no
\* vault address" and "has expiry": for a fixed action, an input that
\* differs from the hashed one in the nonce, in the presence or value of the
\* 20-byte vault address, or in the presence or value of the expiry gives
\* action_hash a different byte string to hash.
C30_LayoutUnambiguous ==
    hpc = "hashed" =>
        \A x \in OtherHashInputs :
            (x.nonce # hin.nonce \/ x.vault # hin.vault
             \/ x.expires # hin.expires)
            => ActionHashData(PyDict(hin.action), x.vault, x.nonce, x.expires)
               # hout.data1

C30_Witness ==
    /\ hpc = "hashed"
    /\ hin.vault = NoVault /\ hin.expires = 16909061
    /\ hin.action = LeverageDict(150, 5)
    /\ Len(hout.data1) = Len(hout.ser1) + 18
    /\ hout.data1[Len(hout.ser1) + 9] = 0
    /\ hout.data1[Len(hout.ser1) + 10] = 0
    /\ ActionHashData(PyDict(hin.action), NoVault, hin.nonce, 0) # hout.data1

====
